---- MODULE Spec2Model ----
(***************************************************************************)
(* Readify API: the quota and admission-control subsystem.                 *)
(*                                                                         *)
(*   - lib/token-tracker.ts   tier limits cache, usage ledger, quota gate  *)
(*   - routes/ai.ts           quota middleware and the metered handlers    *)
(*   - routes/usage.ts        client-reported realtime usage               *)
(*   - lib/supabase.ts        subscription lookup                          *)
(*   - websocket/handler.ts   per-user WebSocket message window            *)
(*   - middleware/rate-limit.ts  the HTTP traffic classes                  *)
(*                                                                         *)
(* Every await of the code is a step boundary: a request is a process      *)
(* whose position is req[r].pc, and the store calls between two awaits     *)
(* are one atomic action.  Store faults are chosen by the environment.     *)
(***************************************************************************)
EXTENDS Integers, Sequences, FiniteSets, Bags, TLC

VARIABLES
    now,                \* Date.now(), in ms since the process started
    month,              \* index of the wall-clock calendar month
    tier_limits,        \* table tier_limits: a set of rows
    limitsCache,        \* token-tracker.ts: let limitsCache
    user_profiles,      \* table user_profiles: user -> subscription_status
    user_token_limits,  \* table user_token_limits: user -> aggregate row
    token_usage,        \* table token_usage: the appended usage events
    req,                \* the in-flight HTTP requests
    started,            \* number of requests accepted so far
    faults,             \* number of faults injected into the requests in flight
    incN,               \* history: successful increments per (user, feature) this month
    incSum,             \* history: their sum
    incAmt,             \* history: their common amount (0 none yet, -1 mixed)
    overlap,            \* history: two recordings of one (user, feature) ran concurrently
    rateWindows,        \* express-rate-limit stores: class -> key -> window
    messageRateLimits,  \* handler.ts: messageRateLimits map
    lastAdmit,          \* history: the latest admit, its window before and after
    obs,                \* history: an independent fixed-window observer per identity
    ticks,              \* number of times the clock advanced between admits
    http,               \* the HTTP requests on their way through a route's middleware
    cacheHist,          \* history: when limitsCache was assigned, cleared, and from what
    stripe_subscriptions, \* Stripe: the subscription object of each user
    webhooks,           \* Stripe: the events sent and not yet delivered to /stripe/webhook
    cancelPc,           \* POST /stripe/cancel-subscription: position of each user's request
    cancelled,          \* history: the user cancelled the subscription Stripe still holds
    sockets,            \* the WebSocket connections the server has accepted
    userConnectionCounts, \* handler.ts: userConnectionCounts map
    connections,        \* handler.ts: connections map, user -> socket
    lastMessage,        \* history: the latest socket message and what became of it
    beats,              \* number of heartbeat ticks so far
    user_sites,         \* table user_sites: the saved sites, <<user, url_digest>>
    siteReq             \* the in-flight requests of the sites routes

vars == <<now, month, tier_limits, limitsCache, user_profiles, user_token_limits,
          token_usage, req, started, faults, incN, incSum, incAmt, overlap,
          rateWindows, messageRateLimits, lastAdmit, obs, ticks, http, cacheHist,
          stripe_subscriptions, webhooks, cancelPc, cancelled,
          sockets, userConnectionCounts, connections, lastMessage, beats,
          user_sites, siteReq>>

quotaVars == <<month, tier_limits, limitsCache, cacheHist, user_profiles, user_token_limits,
               token_usage, req, started, faults, incN, incSum, incAmt, overlap>>

rateVars == <<rateWindows, messageRateLimits, lastAdmit, obs, ticks, http>>

billingVars == <<stripe_subscriptions, webhooks, cancelPc, cancelled>>

socketVars == <<sockets, userConnectionCounts, connections, lastMessage, beats>>

sitesVars == <<user_sites, siteReq>>

\* the tables and caches the billing routes leave alone
meteringVars == <<month, tier_limits, limitsCache, cacheHist, user_token_limits,
                  token_usage, req, started, faults, incN, incSum, incAmt, overlap>>

-----------------------------------------------------------------------------
(* Bounds of the model *)

MaxRequests == 2
MaxFaults == 1
MaxMonth == 1
MaxLedgerRequests == 3
MaxTicks == 2           \* clock advances in the rate-limit runs
MaxRejects == 2         \* admits observed beyond a class's ceiling, per window
MaxLightAdmits == 2     \* admits of the lightly loaded windows in the pipeline runs
MaxLimitRequests == 3   \* GET /usage/limits requests in the limits-cache runs
MaxRecordRequests == 2  \* requests in the recording runs
MaxSockets == 4         \* WebSocket connection attempts
MaxBeats == 3           \* heartbeat ticks
MaxBadMessages == 1     \* socket messages that are not JSON
MaxSocketMessages == 2  \* socket messages in the connection runs

Users == {"u1", "u2"}
Reqs == {"r1", "r2"}
Endpoints == {"chat", "tts", "realtime"}
Tiers == {"free", "premium"}
Routes == {"chat", "tts", "realtime-token", "record-realtime"}

Max(a, b) == IF a >= b THEN a ELSE b

-----------------------------------------------------------------------------
(* lib/token-tracker.ts: limits configuration *)

DEFAULT_LIMITS ==
    [free    |-> [chat |-> 50000,   tts |-> 10000,  realtime |-> 3000],
     premium |-> [chat |-> 2000000, tts |-> 500000, realtime |-> 100000]]

LIMITS_CACHE_TTL == 5 * 60 * 1000

ZeroLimits == [chat |-> 0, tts |-> 0, realtime |-> 0]

\* limitsCache = null
NoCache == [set |-> FALSE, free |-> ZeroLimits, premium |-> ZeroLimits, lastFetched |-> 0]

\* The contents the tier_limits table may have: a configured table (speech
\* switched off for the free tier), a table holding the free row only, and an
\* empty table.
ConfiguredTable ==
    { [tier |-> "free",    chat_limit |-> 3000,  tts_limit |-> 0,    realtime_limit |-> 1000],
      [tier |-> "premium", chat_limit |-> 51000, tts_limit |-> 2000, realtime_limit |-> 2000] }

FreeOnlyTable ==
    { [tier |-> "free", chat_limit |-> 2000, tts_limit |-> 1000, realtime_limit |-> 1000] }

LimitTables == {ConfiguredTable, FreeOnlyTable, {}}

RowLimits(row) ==
    [chat |-> row.chat_limit, tts |-> row.tts_limit, realtime |-> row.realtime_limit]

TierRow(table, tier, default) ==
    IF \E row \in table : row.tier = tier
    THEN RowLimits(CHOOSE row \in table : row.tier = tier)
    ELSE default

\* fetchLimitsFromDatabase: null on a store error, a raised fault or an empty
\* result; otherwise the defaults overlaid, tier by tier, with the rows read.
fetchLimitsFromDatabase(outcome, table, t) ==
    IF outcome # "ok" \/ table = {}
    THEN NoCache
    ELSE [set |-> TRUE,
          free |-> TierRow(table, "free", DEFAULT_LIMITS.free),
          premium |-> TierRow(table, "premium", DEFAULT_LIMITS.premium),
          lastFetched |-> t]

\* getCachedLimits, first half: the cache is served while it is younger than the TTL
CacheValid(cache, t) == cache.set /\ (t - cache.lastFetched) < LIMITS_CACHE_TTL

\* a failed refresh always falling back to the defaults
CacheAfterFetchDefaults(cache, dbLimits, t0) ==
    IF dbLimits.set THEN dbLimits
    ELSE [set |-> TRUE, free |-> DEFAULT_LIMITS.free,
          premium |-> DEFAULT_LIMITS.premium, lastFetched |-> t0]

\* a refresh updating the cached object in place, one tier at a time
CacheAfterFetchInPlace(cache, dbLimits, t0) ==
    IF dbLimits.set
    THEN IF cache.set
         THEN [cache EXCEPT !.free = dbLimits.free, !.lastFetched = dbLimits.lastFetched]
         ELSE dbLimits
    ELSE IF ~cache.set
         THEN [set |-> TRUE, free |-> DEFAULT_LIMITS.free,
               premium |-> DEFAULT_LIMITS.premium, lastFetched |-> t0]
         ELSE cache

\* getCachedLimits, second half: the cache after the refresh returned dbLimits
CacheAfterFetch(cache, dbLimits, t0) ==
    IF dbLimits.set THEN dbLimits
    ELSE IF ~cache.set
         THEN [set |-> TRUE, free |-> DEFAULT_LIMITS.free,
               premium |-> DEFAULT_LIMITS.premium, lastFetched |-> t0]
         ELSE cache

\* getLimitsAsync
TierLimitsOf(cache, isPremium) == IF isPremium THEN cache.premium ELSE cache.free

-----------------------------------------------------------------------------
(* lib/token-tracker.ts: helpers *)

\* The wall clock's month m counts calendar months: year m \div 12, month
\* (m % 12) + 1.  A date is <<year, month, day>>.

\* getMonthStart: new Date(year, month, 1) as a YYYY-MM-DD string (the
\* server's time zone is fixed, so the string depends on the month alone)
getMonthStart(m) == <<m \div 12, (m % 12) + 1, 1>>

\* getNextResetDate: new Date(year, month + 1, 1); Date carries month 12
\* over into January of the next year
getNextResetDate(m) ==
    IF (m % 12) + 1 = 12 THEN <<(m \div 12) + 1, 1, 1>>
    ELSE <<m \div 12, (m % 12) + 2, 1>>

WARNING_THRESHOLD_PERCENT == 80

\* calculateFeatureUsage (percentUsed is defined for a positive limit only:
\* the division by a zero limit yields NaN or Infinity, written -1 here)
PercentUsed(used, limit) ==
    IF limit > 0 THEN (200 * used + limit) \div (2 * limit) ELSE -1

\* calculateFeatureUsage admitting a user who is exactly at the limit
calculateFeatureUsageAtLimit(used, limit) ==
    [used |-> used,
     limit |-> limit,
     remaining |-> Max(0, limit - used),
     percentUsed |-> PercentUsed(used, limit),
     isWarning |-> PercentUsed(used, limit) >= WARNING_THRESHOLD_PERCENT,
     allowed |-> used <= limit]

calculateFeatureUsage(used, limit) ==
    [used |-> used,
     limit |-> limit,
     remaining |-> Max(0, limit - used),
     percentUsed |-> PercentUsed(used, limit),
     isWarning |-> PercentUsed(used, limit) >= WARNING_THRESHOLD_PERCENT,
     allowed |-> used < limit]

-----------------------------------------------------------------------------
(* The usage ledger: table user_token_limits *)

\* no row for the user
NoDate == <<0, 0, 0>>

NoRow == [exists |-> FALSE, month_start |-> NoDate, chat |-> 0, tts |-> 0, realtime |-> 0]

\* the switch of lines 293-303 with the tts case reading the chat column
UsedColumnSwapped(data, endpoint) ==
    CASE endpoint = "chat" -> data.tts
      [] endpoint = "tts" -> data.chat
      [] endpoint = "realtime" -> data.realtime

\* line 292 without the comparison of the month marker
UsedFromRowAnyMonth(data, monthStart, endpoint) ==
    IF data.exists THEN data[endpoint] ELSE 0

\* the store call stamped with the reset date instead of the month start
RpcArgsResetDate(userId, tokensUsed, endpoint, m) ==
    [p_user_id |-> userId, p_amount |-> tokensUsed,
     p_endpoint |-> endpoint, p_month_start |-> getNextResetDate(m)]

\* checkFeatureLimit, lines 290-304: the column of the endpoint, counted only
\* when a row came back and its month marker is the current month
UsedColumn(data, endpoint) ==
    CASE endpoint = "chat" -> data.chat
      [] endpoint = "tts" -> data.tts
      [] endpoint = "realtime" -> data.realtime

UsedFromRow(data, monthStart, endpoint) ==
    IF data.exists /\ data.month_start = monthStart
    THEN UsedColumn(data, endpoint)
    ELSE 0

\* arguments that name the chat feature whatever the call's feature
RpcArgsChatEndpoint(userId, tokensUsed, endpoint, m) ==
    [p_user_id |-> userId, p_amount |-> tokensUsed,
     p_endpoint |-> "chat", p_month_start |-> getMonthStart(m)]

\* recordTokenUsage, lines 251-256: the arguments of the one store call
RpcArgs(userId, tokensUsed, endpoint, m) ==
    [p_user_id |-> userId, p_amount |-> tokensUsed,
     p_endpoint |-> endpoint, p_month_start |-> getMonthStart(m)]

\* The store procedure increment_feature_tokens: one atomic add.  A row of an
\* earlier month counts as zero before the amount is applied, and the marker
\* becomes the month passed in.
increment_feature_tokens(row, args) ==
    LET base == IF row.exists /\ row.month_start = args.p_month_start
                THEN row
                ELSE [NoRow EXCEPT !.exists = TRUE, !.month_start = args.p_month_start]
    IN [base EXCEPT ![args.p_endpoint] = @ + args.p_amount]

\* a read-modify-write at the application layer: the amount is added to the
\* row the application read before the call and the sum is written back
AggregateReadModifyWrite(current, seenEarlier, args) ==
    increment_feature_tokens(seenEarlier, args)

\* recordTokenUsage, lines 248-256: the aggregate after the call.  The
\* application sends the amount and the store adds it to the row as it is at
\* that moment; the row the application saw earlier plays no part.
AggregateAfterRpc(current, seenEarlier, args) ==
    increment_feature_tokens(current, args)

-----------------------------------------------------------------------------
(* lib/supabase.ts: subscription lookup *)

\* isPremiumUser: 'active', 'trialing' and 'canceling' have premium access
PremiumStatuses == {"active", "trialing", "canceling"}

\* getUserSubscription then isPremiumUser: a store error makes the profile
\* null, and a null profile is not premium
isPremiumUser(outcome, status) ==
    IF outcome = "ok" THEN status \in PremiumStatuses ELSE FALSE

-----------------------------------------------------------------------------
(* The HTTP requests of routes/ai.ts and routes/usage.ts *)

\* the feature each route meters
RouteEndpoint(route) ==
    CASE route = "chat" -> "chat"
      [] route = "tts" -> "tts"
      [] route = "realtime-token" -> "realtime"
      [] route = "record-realtime" -> "realtime"

\* the model identifier each route records
RouteModel(route) ==
    CASE route = "chat" -> "gpt-4o-mini"
      [] route = "tts" -> "gpt-4o-mini-tts"
      [] route = "realtime-token" -> "none"
      [] route = "record-realtime" -> "gpt-4o-realtime"

\* the measured cost an operation may report: total tokens of a chat stream
\* (0 when the stream carried no usage chunk), characters of a tts text
\* (1..4096), tokens of a realtime session as reported by the client
ChatCosts == {0, 2000, 49000}
TtsCosts == {1000}
RealtimeCosts == {0, 1000}

RouteCosts(route) ==
    CASE route = "chat" -> ChatCosts
      [] route = "tts" -> TtsCosts
      [] route = "realtime-token" -> {0}
      [] route = "record-realtime" -> RealtimeCosts

Outcomes == {"ok", "error", "throw"}

NoQuota ==
    [set |-> FALSE, used |-> 0, limit |-> 0, remaining |-> 0, percentUsed |-> 0,
     isWarning |-> FALSE, allowed |-> FALSE, resetDate |-> NoDate,
     outcome |-> "none", monthStart |-> NoDate, row |-> NoRow,
     incN |-> 0, incSum |-> 0, incAmt |-> 0]

NoResp ==
    [status |-> 0, code |-> "none", limit |-> 0, used |-> 0, remaining |-> 0,
     resetDate |-> NoDate, upgrade |-> FALSE, tier |-> "none", otherLimits |-> ZeroLimits]

\* history of one call of getCachedLimits: the cache and its history at the
\* call, whether a read was issued, what the read returned, the cache before
\* and after the continuation, and the limit set the call returned
NoRes ==
    [set |-> FALSE, calledAt |-> 0, cache |-> NoCache, populatedAt |-> 0,
     cleared |-> FALSE, issued |-> FALSE, outcome |-> "none", rows |-> {},
     before |-> NoCache, after |-> NoCache, returned |-> FALSE, got |-> NoCache,
     preChange |-> FALSE]

IdleReq ==
    [pc |-> "idle", route |-> "none", user |-> "none", isPremium |-> FALSE,
     res |-> NoRes,
     t0 |-> 0, cont |-> "none", lim |-> ZeroLimits, tokenQuota |-> NoQuota,
     cost |-> 0, resp |-> NoResp, handler |-> FALSE, upstream |-> FALSE,
     events |-> 0, increments |-> 0, u0 |-> 0, m0 |-> 0, seen |-> NoRow,
     rpcPrev |-> NoRow, rpcAt |-> 0, insert |-> "none", rpc |-> "none"]

Set(r, new) == req' = [req EXCEPT ![r] = new]

Fault(outcome) ==
    IF outcome = "ok"
    THEN faults' = faults
    ELSE faults < MaxFaults /\ faults' = faults + 1

\* checkFeatureLimit, lines 277-325, once the limit is resolved: the result
\* of the ledger read that ended with `outcome` and returned `data`
FailOpenResult(limit) ==
    [used |-> 0, limit |-> limit, remaining |-> limit, percentUsed |-> 0,
     isWarning |-> FALSE, allowed |-> TRUE]

checkFeatureLimit(outcome, data, limit, monthStart, endpoint) ==
    IF outcome = "throw"
    THEN FailOpenResult(limit)
    ELSE calculateFeatureUsage(
             UsedFromRow(IF outcome = "ok" THEN data ELSE NoRow, monthStart, endpoint),
             limit)

\* short-circuiting at the warning threshold instead of at the limit
QuotaDeniedOnWarning(featureCheck) == featureCheck.isWarning

\* createQuotaChecker, line 302: the request is short-circuited
QuotaDenied(featureCheck) == ~featureCheck.allowed

\* createQuotaChecker, lines 305-321: the 'limit reached' response
LimitReachedResponse(featureCheck, isPremium, limits) ==
    [status |-> 429, code |-> "TOKEN_LIMIT_REACHED",
     limit |-> featureCheck.limit, used |-> featureCheck.used, remaining |-> 0,
     resetDate |-> featureCheck.resetDate, upgrade |-> ~isPremium,
     tier |-> IF isPremium THEN "premium" ELSE "free", otherLimits |-> limits]

OkResponse == [NoResp EXCEPT !.status = 200, !.code = "ok"]

ErrorResponse(status, code) == [NoResp EXCEPT !.status = status, !.code = code]

\* An authenticated request enters its route.  The metered routes run the
\* quota middleware first; /usage/record-realtime records what the client
\* reports (nothing when it reports 0).
Start(r, u, route, c, cap) ==
    /\ req[r].pc = "idle"
    /\ started < cap
    /\ started' = started + 1
    /\ IF route = "record-realtime"
       THEN /\ c \in RealtimeCosts
            /\ Set(r, [IdleReq EXCEPT !.route = route, !.user = u, !.handler = TRUE,
                           !.cost = c,
                           !.pc = IF c > 0 THEN "rec_insert" ELSE "done",
                           !.resp = IF c > 0 THEN NoResp ELSE OkResponse])
       ELSE /\ c = 0
            /\ Set(r, [IdleReq EXCEPT !.route = route, !.user = u, !.pc = "tier",
                           !.u0 = UsedFromRow(user_token_limits[u], getMonthStart(month),
                                              RouteEndpoint(route)),
                           !.m0 = month])
    /\ UNCHANGED <<now, month, tier_limits, limitsCache, cacheHist, user_profiles,
                   user_token_limits, token_usage, faults, incN, incSum, incAmt,
                   overlap, rateVars, billingVars, socketVars, sitesVars>>

\* checkQuota, line 294: await isPremiumUser.  A raised fault lands in
\* checkQuota's catch, which calls next().
TierLookup(r, outcome) ==
    /\ req[r].pc = "tier"
    /\ outcome \in Outcomes
    /\ Fault(outcome)
    /\ IF outcome = "throw"
       THEN Set(r, [req[r] EXCEPT !.pc = "handler"])
       ELSE Set(r, [req[r] EXCEPT !.pc = "limits", !.cont = "check",
                        !.isPremium = isPremiumUser(outcome, user_profiles[req[r].user])])
    /\ UNCHANGED <<now, month, tier_limits, limitsCache, cacheHist, user_profiles,
                   user_token_limits, token_usage, started, incN, incSum, incAmt,
                   overlap, rateVars, billingVars, socketVars, sitesVars>>

\* where getCachedLimits returns to: checkFeatureLimit, getCurrentLimits in
\* checkQuota, or getCurrentLimits in GET /usage/limits
AfterLimits(cont) ==
    CASE cont = "check" -> "read"
      [] cont = "deny" -> "deny"
      [] cont = "respond" -> "respond"

NoHist == [populatedAt |-> 0, cleared |-> FALSE, reads |-> {}]

\* getCachedLimits, lines 92-100: serve the cache, or start a refresh
LimitsStart(r) ==
    /\ req[r].pc = "limits"
    /\ LET call == [NoRes EXCEPT !.set = TRUE, !.calledAt = now, !.cache = limitsCache,
                                 !.populatedAt = cacheHist.populatedAt,
                                 !.cleared = cacheHist.cleared]
       IN IF CacheValid(limitsCache, now)
          THEN Set(r, [req[r] EXCEPT !.pc = AfterLimits(req[r].cont),
                           !.lim = TierLimitsOf(limitsCache, req[r].isPremium),
                           !.res = [call EXCEPT !.returned = TRUE, !.got = limitsCache]])
          ELSE Set(r, [req[r] EXCEPT !.pc = "fetch", !.t0 = now,
                           !.res = [call EXCEPT !.issued = TRUE]])
    /\ cacheHist' = [cacheHist EXCEPT !.cleared = FALSE]
    /\ UNCHANGED <<now, month, tier_limits, limitsCache, user_profiles,
                   user_token_limits, token_usage, started, faults, incN, incSum,
                   incAmt, overlap, rateVars, billingVars, socketVars, sitesVars>>

\* fetchLimitsFromDatabase, lines 51-53: the store serves the select with the
\* rows the table holds at that moment, or fails
LimitsRead(r, outcome) ==
    /\ req[r].pc = "fetch"
    /\ outcome \in Outcomes
    /\ Fault(outcome)
    /\ Set(r, [req[r] EXCEPT !.pc = "fetched", !.res.outcome = outcome,
                   !.res.rows = IF outcome = "ok" THEN tier_limits ELSE {}])
    /\ UNCHANGED <<now, month, tier_limits, limitsCache, cacheHist, user_profiles,
                   user_token_limits, token_usage, started, incN, incSum, incAmt,
                   overlap, rateVars, billingVars, socketVars, sitesVars>>

\* fetchLimitsFromDatabase, lines 55-85, and getCachedLimits, lines 100-120:
\* the refresh came back
LimitsFetch(r) ==
    /\ req[r].pc = "fetched"
    /\ LET dbLimits == fetchLimitsFromDatabase(req[r].res.outcome, req[r].res.rows, now)
       IN /\ limitsCache' = CacheAfterFetch(limitsCache, dbLimits, req[r].t0)
          /\ cacheHist' =
                 [cacheHist EXCEPT
                    !.populatedAt = IF dbLimits.set \/ ~limitsCache.set THEN now ELSE @,
                    !.reads = IF dbLimits.set THEN @ \cup {req[r].res.rows} ELSE @]
    /\ Set(r, [req[r] EXCEPT !.pc = AfterLimits(req[r].cont),
                   !.lim = TierLimitsOf(limitsCache', req[r].isPremium),
                   !.res.before = limitsCache, !.res.after = limitsCache',
                   !.res.returned = TRUE, !.res.got = limitsCache'])
    /\ UNCHANGED <<now, month, tier_limits, user_profiles, user_token_limits,
                   token_usage, started, faults, incN, incSum, incAmt, overlap, rateVars,
                   billingVars, socketVars, sitesVars>>

\* usage.ts, line 98: GET /usage/limits arrives; its handler calls getCurrentLimits
StartLimits(r, cap) ==
    /\ req[r].pc = "idle"
    /\ started < cap
    /\ started' = started + 1
    /\ Set(r, [IdleReq EXCEPT !.route = "limits", !.pc = "limits", !.cont = "respond",
                              !.handler = TRUE])
    /\ UNCHANGED <<now, month, tier_limits, limitsCache, cacheHist, user_profiles,
                   user_token_limits, token_usage, faults, incN, incSum, incAmt,
                   overlap, rateVars, billingVars, socketVars, sitesVars>>

\* usage.ts, lines 100-105: the handler answers with both tiers' limits
LimitsRespond(r) ==
    /\ req[r].pc = "respond"
    /\ Set(r, [req[r] EXCEPT !.pc = "done", !.resp = OkResponse])
    /\ UNCHANGED <<now, month, tier_limits, limitsCache, cacheHist, user_profiles,
                   user_token_limits, token_usage, started, faults, incN, incSum,
                   incAmt, overlap, rateVars, billingVars, socketVars, sitesVars>>

\* the refresh of request r has read the table and not yet come back, and the
\* table has been changed since
ReadBeforeChange(r) ==
    /\ req[r].pc = "fetched"
    /\ req[r].res.outcome = "ok"
    /\ req[r].res.rows # tier_limits

\* token-tracker.ts, lines 137-139; a refresh in flight is left alone, and
\* the history notes whether it holds rows read before a change
clearLimitsCache ==
    /\ limitsCache' = NoCache
    /\ cacheHist' = [cacheHist EXCEPT !.cleared = TRUE, !.populatedAt = 0]
    /\ req' = [r \in Reqs |->
                  [req[r] EXCEPT !.res.preChange = @ \/ ReadBeforeChange(r)]]
    /\ UNCHANGED <<now, month, tier_limits, user_profiles, user_token_limits,
                   token_usage, started, faults, incN, incSum, incAmt, overlap,
                   rateVars, billingVars, socketVars, sitesVars>>

\* An administrator rewrites the tier_limits table
AdminUpdate(table) ==
    /\ table \in LimitTables
    /\ table # tier_limits
    /\ tier_limits' = table
    /\ UNCHANGED <<now, month, limitsCache, cacheHist, user_profiles,
                   user_token_limits, token_usage, req, started, faults, incN, incSum,
                   incAmt, overlap, rateVars, billingVars, socketVars, sitesVars>>

\* checkFeatureLimit, lines 276-325, and checkQuota, lines 297-325
LedgerRead(r, outcome) ==
    /\ req[r].pc = "read"
    /\ outcome \in Outcomes
    /\ Fault(outcome)
    /\ LET endpoint == RouteEndpoint(req[r].route)
           monthStart == getMonthStart(month)
           data == user_token_limits[req[r].user]
           res == checkFeatureLimit(outcome, data, req[r].lim[endpoint], monthStart, endpoint)
           featureCheck ==
               [set |-> TRUE, used |-> res.used, limit |-> res.limit,
                remaining |-> res.remaining, percentUsed |-> res.percentUsed,
                isWarning |-> res.isWarning, allowed |-> res.allowed,
                resetDate |-> getNextResetDate(month),
                outcome |-> outcome, monthStart |-> monthStart, row |-> data,
                incN |-> incN[req[r].user][endpoint],
                incSum |-> incSum[req[r].user][endpoint],
                incAmt |-> incAmt[req[r].user][endpoint]]
       IN Set(r, [req[r] EXCEPT !.tokenQuota = featureCheck, !.res = NoRes,
                      !.cont = IF QuotaDenied(featureCheck) THEN "deny" ELSE "none",
                      !.pc = IF QuotaDenied(featureCheck) THEN "limits" ELSE "handler"])
    /\ UNCHANGED <<now, month, tier_limits, limitsCache, cacheHist, user_profiles,
                   user_token_limits, token_usage, started, incN, incSum, incAmt,
                   overlap, rateVars, billingVars, socketVars, sitesVars>>

\* checkQuota, lines 305-322: respond 429 and return without calling next()
DenyRespond(r) ==
    /\ req[r].pc = "deny"
    /\ Set(r, [req[r] EXCEPT !.pc = "done", !.res = NoRes,
                   !.resp = LimitReachedResponse(req[r].tokenQuota, req[r].isPremium,
                                                 req[r].lim)])
    /\ UNCHANGED <<now, month, tier_limits, limitsCache, cacheHist, user_profiles,
                   user_token_limits, token_usage, started, faults, incN, incSum,
                   incAmt, overlap, rateVars, billingVars, socketVars, sitesVars>>

\* The route handler runs: it validates the body and, when the body is
\* valid, calls the metered upstream operation.
Handler(r, valid) ==
    /\ req[r].pc = "handler"
    /\ valid \in BOOLEAN
    /\ IF valid
       THEN Set(r, [req[r] EXCEPT !.pc = "upstream", !.handler = TRUE, !.upstream = TRUE])
       ELSE Set(r, [req[r] EXCEPT !.pc = "done", !.handler = TRUE,
                        !.resp = ErrorResponse(400, "VALIDATION_ERROR")])
    /\ UNCHANGED <<now, month, tier_limits, limitsCache, cacheHist, user_profiles,
                   user_token_limits, token_usage, started, faults, incN, incSum,
                   incAmt, overlap, rateVars, billingVars, socketVars, sitesVars>>

\* The upstream operation fails: nothing is recorded
UpstreamFails(r) ==
    /\ req[r].pc = "upstream"
    /\ faults < MaxFaults
    /\ faults' = faults + 1
    /\ Set(r, [req[r] EXCEPT !.pc = "done", !.resp = ErrorResponse(500, "INTERNAL_ERROR")])
    /\ UNCHANGED <<now, month, tier_limits, limitsCache, cacheHist, user_profiles,
                   user_token_limits, token_usage, started, incN, incSum, incAmt,
                   overlap, rateVars, billingVars, socketVars, sitesVars>>

\* The upstream operation completes with measured cost c.  /chat records
\* when totalTokens > 0, /tts records the character count, /realtime-token
\* records nothing.
UpstreamDone(r, c) ==
    /\ req[r].pc = "upstream"
    /\ c \in RouteCosts(req[r].route)
    /\ IF req[r].route \in {"chat", "tts"} /\ c > 0
       THEN Set(r, [req[r] EXCEPT !.pc = "rec_insert", !.cost = c])
       ELSE Set(r, [req[r] EXCEPT !.pc = "done", !.cost = c, !.resp = OkResponse])
    /\ UNCHANGED <<now, month, tier_limits, limitsCache, cacheHist, user_profiles,
                   user_token_limits, token_usage, started, faults, incN, incSum,
                   incAmt, overlap, rateVars, billingVars, socketVars, sitesVars>>

\* recordTokenUsage letting a raised fault of its store calls through to the
\* handler, whose catch turns it into an error response
AfterRecordingRaised(insert, rpc) ==
    IF "throw" \in {insert, rpc}
    THEN ErrorResponse(500, "INTERNAL_ERROR")
    ELSE OkResponse

\* recordTokenUsage, lines 231-264, seen from the handler: whatever the two
\* store calls did (returned error: logged; raised fault: caught and logged)
\* the function returns and the handler goes on to send its result
AfterRecording(insert, rpc) == OkResponse

\* the event carrying the ceiling of the request (4096 characters of text,
\* 1024 completion tokens) instead of what the operation measured
UsageEventCeiling(r) ==
    [user_id |-> req[r].user,
     tokens_used |-> IF req[r].route = "tts" THEN 4096 ELSE 1024,
     model |-> RouteModel(req[r].route), endpoint |-> RouteEndpoint(req[r].route)]

\* recordTokenUsage, lines 233-242: the row inserted into token_usage
UsageEvent(r) ==
    [user_id |-> req[r].user, tokens_used |-> req[r].cost,
     model |-> RouteModel(req[r].route), endpoint |-> RouteEndpoint(req[r].route)]

\* an insert that keeps one row per user and feature, replacing the earlier one
AppendEventUpsert(log, event) ==
    LET kept == {x \in BagToSet(log) :
                    ~(x.user_id = event.user_id /\ x.endpoint = event.endpoint)}
    IN [x \in kept |-> log[x]] (+) SetToBag({event})

\* recordTokenUsage, lines 233-242: .from('token_usage').insert(...) adds a row
AppendEvent(log, event) == log (+) SetToBag({event})

\* recordTokenUsage, lines 231-246: the event insert.  A raised fault lands
\* in the catch of line 261 and the function returns.
RecInsert(r, outcome) ==
    /\ req[r].pc = "rec_insert"
    /\ outcome \in Outcomes
    /\ Fault(outcome)
    /\ token_usage' = IF outcome = "ok" THEN AppendEvent(token_usage, UsageEvent(r))
                      ELSE token_usage
    /\ IF outcome = "throw"
       THEN Set(r, [req[r] EXCEPT !.pc = "done", !.insert = outcome,
                        !.resp = AfterRecording(outcome, "none")])
       ELSE Set(r, [req[r] EXCEPT !.pc = "rec_rpc", !.insert = outcome,
                        !.events = IF outcome = "ok" THEN 1 ELSE 0,
                        !.seen = user_token_limits[req[r].user]])
    /\ UNCHANGED <<now, month, tier_limits, limitsCache, cacheHist, user_profiles,
                   user_token_limits, started, incN, incSum, incAmt, overlap, rateVars,
                   billingVars, socketVars, sitesVars>>

Recording(r, u, e) ==
    /\ req[r].pc \in {"rec_insert", "rec_rpc"}
    /\ req[r].user = u
    /\ RouteEndpoint(req[r].route) = e

\* recordTokenUsage, lines 248-264: the one store call that adds the amount;
\* the handler then sends its response.
RecRpc(r, outcome) ==
    /\ req[r].pc = "rec_rpc"
    /\ outcome \in Outcomes
    /\ Fault(outcome)
    /\ LET u == req[r].user
           e == RouteEndpoint(req[r].route)
           args == RpcArgs(u, req[r].cost, e, month)
       IN IF outcome = "ok"
          THEN /\ user_token_limits' =
                     [user_token_limits EXCEPT
                        ![args.p_user_id] = AggregateAfterRpc(@, req[r].seen, args)]
               /\ incN' = [incN EXCEPT ![u][e] = @ + 1]
               /\ incSum' = [incSum EXCEPT ![u][e] = @ + req[r].cost]
               /\ incAmt' = [incAmt EXCEPT ![u][e] =
                                IF @ = 0 \/ @ = req[r].cost THEN req[r].cost ELSE -1]
               /\ overlap' = (overlap \/ \E o \in Reqs \ {r} : Recording(o, u, e))
               /\ Set(r, [req[r] EXCEPT !.pc = "done",
                              !.resp = AfterRecording(req[r].insert, outcome),
                              !.increments = 1, !.seen = NoRow, !.rpc = outcome,
                              !.rpcPrev = user_token_limits[u], !.rpcAt = month])
          ELSE /\ Set(r, [req[r] EXCEPT !.pc = "done",
                               !.resp = AfterRecording(req[r].insert, outcome),
                               !.seen = NoRow, !.rpc = outcome])
               /\ UNCHANGED <<user_token_limits, incN, incSum, incAmt, overlap>>
    /\ UNCHANGED <<now, month, tier_limits, limitsCache, cacheHist, user_profiles,
                   token_usage, started, rateVars, billingVars, socketVars, sitesVars>>

\* The response is out: the slot serves the next request
Finish(r) ==
    /\ req[r].pc = "done"
    /\ Set(r, IdleReq)
    /\ faults' = IF \A o \in Reqs \ {r} : req[o].pc = "idle" THEN 0 ELSE faults
    /\ UNCHANGED <<now, month, tier_limits, limitsCache, cacheHist, user_profiles,
                   user_token_limits, token_usage, started, incN, incSum,
                   incAmt, overlap, rateVars, billingVars, socketVars, sitesVars>>

\* The store is back: later calls may fail again
Recover ==
    /\ faults > 0
    /\ faults' = 0
    /\ UNCHANGED <<now, month, tier_limits, limitsCache, cacheHist, user_profiles,
                   user_token_limits, token_usage, req, started, incN, incSum,
                   incAmt, overlap, rateVars, billingVars, socketVars, sitesVars>>

ZeroCounts == [u \in Users |-> [e \in Endpoints |-> 0]]

\* The wall clock enters the next calendar month
NextMonth ==
    /\ month < 11 + MaxMonth
    /\ month' = month + 1
    /\ now' = now
    /\ incN' = ZeroCounts
    /\ incSum' = ZeroCounts
    /\ incAmt' = ZeroCounts
    /\ UNCHANGED <<tier_limits, limitsCache, cacheHist, user_profiles, user_token_limits,
                   token_usage, req, started, faults, overlap, rateVars,
                   billingVars, socketVars, sitesVars>>

-----------------------------------------------------------------------------
(* Billing: the Stripe routes and webhook handlers *)

\* a Stripe subscription: status "none" before the first checkout,
\* "canceled" once Stripe has deleted it
NoSubscription == [status |-> "none", cancel_at_period_end |-> FALSE]
ActiveSubscription == [status |-> "active", cancel_at_period_end |-> FALSE]

HasSubscription(u) == stripe_subscriptions[u].status \notin {"none", "canceled"}

\* the event Stripe sends, carrying the subscription as it is at that moment
StripeEvent(type, u, subscription) ==
    [type |-> type, user |-> u, status |-> subscription.status,
     cancel_at_period_end |-> subscription.cancel_at_period_end]

\* The user pays at Stripe's checkout page: Stripe creates the subscription
\* and sends checkout.session.completed and customer.subscription.created
Checkout(u) ==
    /\ ~HasSubscription(u)
    /\ user_profiles[u] = "free"
    /\ stripe_subscriptions' = [stripe_subscriptions EXCEPT ![u] = ActiveSubscription]
    /\ webhooks' = webhooks \cup
           {StripeEvent("checkout.session.completed", u, ActiveSubscription),
            StripeEvent("customer.subscription.created", u, ActiveSubscription)}
    /\ cancelled' = [cancelled EXCEPT ![u] = FALSE]
    /\ UNCHANGED <<now, user_profiles, cancelPc, meteringVars, rateVars, socketVars, sitesVars>>

\* cancel-subscription, lines 165-184: the profile holds the subscription,
\* and stripe.subscriptions.update sets cancel_at_period_end; Stripe sends
\* customer.subscription.updated
CancelAtStripe(u) ==
    /\ cancelPc[u] = "idle"
    /\ HasSubscription(u)
    /\ user_profiles[u] # "free"
    /\ ~stripe_subscriptions[u].cancel_at_period_end
    /\ LET updated == [stripe_subscriptions[u] EXCEPT !.cancel_at_period_end = TRUE]
       IN /\ stripe_subscriptions' = [stripe_subscriptions EXCEPT ![u] = updated]
          /\ webhooks' = webhooks \cup {StripeEvent("customer.subscription.updated", u, updated)}
    /\ cancelPc' = [cancelPc EXCEPT ![u] = "profile"]
    /\ UNCHANGED <<now, user_profiles, cancelled, meteringVars, rateVars,
                   socketVars, sitesVars>>

\* cancel-subscription, lines 189-226: the profile becomes 'canceling' and
\* the route answers
CancelProfile(u) ==
    /\ cancelPc[u] = "profile"
    /\ user_profiles' = [user_profiles EXCEPT ![u] = "canceling"]
    /\ cancelPc' = [cancelPc EXCEPT ![u] = "idle"]
    /\ cancelled' = [cancelled EXCEPT ![u] = HasSubscription(u)]
    /\ UNCHANGED <<now, stripe_subscriptions, webhooks, meteringVars, rateVars,
                   socketVars, sitesVars>>

\* The billing period of a cancelled subscription ends: Stripe deletes the
\* subscription and sends customer.subscription.deleted
PeriodEnds(u) ==
    /\ HasSubscription(u)
    /\ stripe_subscriptions[u].cancel_at_period_end
    /\ LET deleted == [status |-> "canceled", cancel_at_period_end |-> TRUE]
       IN /\ stripe_subscriptions' = [stripe_subscriptions EXCEPT ![u] = deleted]
          /\ webhooks' = webhooks \cup {StripeEvent("customer.subscription.deleted", u, deleted)}
    /\ cancelled' = [cancelled EXCEPT ![u] = FALSE]
    /\ UNCHANGED <<now, user_profiles, cancelPc, meteringVars, rateVars, socketVars, sitesVars>>

\* handleSubscriptionChange, lines 353-357: Stripe's status, except that an
\* active subscription set to cancel at the period end is stored as 'canceled'
SubscriptionStatus(event) ==
    IF event.status = "active" /\ event.cancel_at_period_end
    THEN "canceled"
    ELSE event.status

\* webhook, lines 262-296, and the handlers of lines 305-425: the status the
\* event leaves in the user's profile
ProfileAfterEvent(event) ==
    CASE event.type = "checkout.session.completed" -> "active"
      [] event.type \in {"customer.subscription.created", "customer.subscription.updated"} ->
             SubscriptionStatus(event)
      [] event.type = "customer.subscription.deleted" -> "free"

\* handleSubscriptionDeleted, lines 393-397: the end of a subscription deletes
\* every saved site of the user
SitesAfterEvent(event) ==
    IF event.type = "customer.subscription.deleted"
    THEN {site \in user_sites : site[1] # event.user}
    ELSE user_sites

\* POST /stripe/webhook: Stripe delivers an event, in any order
Webhook(event) ==
    /\ event \in webhooks
    /\ webhooks' = webhooks \ {event}
    /\ user_profiles' = [user_profiles EXCEPT ![event.user] = ProfileAfterEvent(event)]
    /\ user_sites' = SitesAfterEvent(event)
    /\ UNCHANGED <<now, stripe_subscriptions, cancelPc, cancelled, meteringVars, rateVars,
                   socketVars, siteReq>>

-----------------------------------------------------------------------------
(* Rate limiting: middleware/rate-limit.ts and websocket/handler.ts *)

NoWindow == [set |-> FALSE, count |-> 0, resetTime |-> 0]

\* a map's entry, NoWindow when the key is absent
Lookup(map, key) == IF key \in DOMAIN map THEN map[key] ELSE NoWindow

\* map.set(key, value)
MapSet(map, key, value) == (key :> value) @@ map

\* rate-limit.ts: windowMs and max of each limiter
RateClasses ==
    [global |-> [windowMs |-> 60 * 1000, max |-> 100, key |-> "ip"],
     auth |-> [windowMs |-> 15 * 60 * 1000, max |-> 5, key |-> "ip"],
     api |-> [windowMs |-> 60 * 1000, max |-> 60, key |-> "userOrIp"],
     strictApi |-> [windowMs |-> 60 * 1000, max |-> 30, key |-> "userOrIp"],
     ai |-> [windowMs |-> 60 * 1000, max |-> 20, key |-> "userOrIp"],
     stripe |-> [windowMs |-> 60 * 1000, max |-> 10, key |-> "userOrIp"],
     webhook |-> [windowMs |-> 60 * 1000, max |-> 100, key |-> "ip"]]

\* rate-limit.ts, lines 24-38: the key of a request; user is "" when
\* req.user is not set
userOrIpKeyGenerator(user, ip) == IF user # "" THEN <<"user", user>> ELSE <<"ip", ip>>
ipOnlyKeyGenerator(user, ip) == <<"ip", ip>>
KeyOf(class, user, ip) ==
    IF RateClasses[class].key = "ip"
    THEN ipOnlyKeyGenerator(user, ip)
    ELSE userOrIpKeyGenerator(user, ip)

\* seconds left until the reset, rounded up
SecondsUntil(resetTime, t) == (resetTime - t + 999) \div 1000

\* The fixed window of the limiter library (spec 4.4): a counter starts at 1
\* with reset = now + windowMs, every admit within the window increments it, at
\* or past the reset the window restarts, and count > max rejects.
admit(window, t, cfg) ==
    LET fresh == ~window.set \/ t >= window.resetTime
        w == IF fresh
             THEN [set |-> TRUE, count |-> 1, resetTime |-> t + cfg.windowMs]
             ELSE [window EXCEPT !.count = @ + 1]
    IN [window |-> w,
        allowed |-> w.count <= cfg.max,
        retryAfter |-> IF w.count <= cfg.max THEN 0 ELSE SecondsUntil(w.resetTime, t)]

\* a handler answering without the Retry-After value
rateLimitHandlerBare(retryAfter) ==
    [status |-> 429, code |-> "RATE_LIMITED", retryAfter |-> 0]

\* rate-limit.ts, lines 43-50: the answer to a rejected request
rateLimitHandler(retryAfter) ==
    [status |-> 429, code |-> "RATE_LIMITED", retryAfter |-> retryAfter]

WS_MAX_MESSAGES_PER_MINUTE == 60
WsWindowMs == 60000

\* isRateLimited rejecting only once the count has passed the ceiling
isRateLimitedAfterCeiling(limits, userId, t) ==
    LET limit == Lookup(limits, userId)
    IN IF ~limit.set \/ t >= limit.resetTime
       THEN [limited |-> FALSE,
             limits |-> MapSet(limits, userId,
                               [set |-> TRUE, count |-> 1, resetTime |-> t + WsWindowMs])]
       ELSE IF limit.count > WS_MAX_MESSAGES_PER_MINUTE
            THEN [limited |-> TRUE, limits |-> limits]
            ELSE [limited |-> FALSE,
                  limits |-> MapSet(limits, userId, [limit EXCEPT !.count = @ + 1])]

\* isRateLimited keeping the old window at the very instant of its reset
isRateLimitedLateReset(limits, userId, t) ==
    LET limit == Lookup(limits, userId)
    IN IF ~limit.set \/ t > limit.resetTime
       THEN [limited |-> FALSE,
             limits |-> MapSet(limits, userId,
                               [set |-> TRUE, count |-> 1, resetTime |-> t + WsWindowMs])]
       ELSE IF limit.count >= WS_MAX_MESSAGES_PER_MINUTE
            THEN [limited |-> TRUE, limits |-> limits]
            ELSE [limited |-> FALSE,
                  limits |-> MapSet(limits, userId, [limit EXCEPT !.count = @ + 1])]

\* isRateLimited starting every new window in a fresh map
isRateLimitedFreshMap(limits, userId, t) ==
    LET limit == Lookup(limits, userId)
    IN IF ~limit.set \/ t >= limit.resetTime
       THEN [limited |-> FALSE,
             limits |-> MapSet(<<>>, userId,
                               [set |-> TRUE, count |-> 1, resetTime |-> t + WsWindowMs])]
       ELSE IF limit.count >= WS_MAX_MESSAGES_PER_MINUTE
            THEN [limited |-> TRUE, limits |-> limits]
            ELSE [limited |-> FALSE,
                  limits |-> MapSet(limits, userId, [limit EXCEPT !.count = @ + 1])]

\* isRateLimited writing back a count computed from the value the window
\* was created with, so that increments of other messages are lost
isRateLimitedLostUpdate(limits, userId, t) ==
    LET limit == Lookup(limits, userId)
    IN IF ~limit.set \/ t >= limit.resetTime
       THEN [limited |-> FALSE,
             limits |-> MapSet(limits, userId,
                               [set |-> TRUE, count |-> 1, resetTime |-> t + WsWindowMs])]
       ELSE IF limit.count >= WS_MAX_MESSAGES_PER_MINUTE
            THEN [limited |-> TRUE, limits |-> limits]
            ELSE [limited |-> FALSE,
                  limits |-> MapSet(limits, userId, [limit EXCEPT !.count = 1 + 1])]

\* handler.ts, lines 23-39: the verdict and the map after the call
isRateLimited(limits, userId, t) ==
    LET limit == Lookup(limits, userId)
    IN IF ~limit.set \/ t >= limit.resetTime
       THEN [limited |-> FALSE,
             limits |-> MapSet(limits, userId,
                               [set |-> TRUE, count |-> 1, resetTime |-> t + WsWindowMs])]
       ELSE IF limit.count >= WS_MAX_MESSAGES_PER_MINUTE
            THEN [limited |-> TRUE, limits |-> limits]
            ELSE [limited |-> FALSE,
                  limits |-> MapSet(limits, userId, [limit EXCEPT !.count = @ + 1])]

\* History: the position of an admit among the admits of its identity that
\* fall within one window length of the first of them
NoObs == [set |-> FALSE, start |-> 0, n |-> 0]
ObsOf(k) == IF k \in DOMAIN obs THEN obs[k] ELSE NoObs
Observe(o, t, windowMs) ==
    IF ~o.set \/ t >= o.start + windowMs
    THEN [set |-> TRUE, start |-> t, n |-> 1]
    ELSE [o EXCEPT !.n = @ + 1]

NoAdmit ==
    [class |-> "none", id |-> <<>>, now |-> 0, accepted |-> FALSE,
     pre |-> NoWindow, post |-> NoWindow, ordinal |-> 0, before |-> 0,
     start |-> 0, retryAfter |-> 0, reply |-> "none", status |-> 0]

\* The middleware a rateLimit(...) call returns, run for one request: every
\* limiter has a store of its own, keyed by its keyGenerator
Limiter(class, user, ip) ==
    LET cfg == RateClasses[class]
        key == KeyOf(class, user, ip)
        store == IF class \in DOMAIN rateWindows THEN rateWindows[class] ELSE <<>>
        pre == Lookup(store, key)
        res == admit(pre, now, cfg)
        o == Observe(ObsOf(<<class, key>>), now, cfg.windowMs)
        resp == rateLimitHandler(res.retryAfter)
    IN /\ o.n <= cfg.max + MaxRejects
       /\ rateWindows' = MapSet(rateWindows, class, MapSet(store, key, res.window))
       /\ obs' = MapSet(obs, <<class, key>>, o)
       /\ lastAdmit' = [class |-> class, id |-> key, now |-> now,
                        accepted |-> res.allowed, pre |-> pre, post |-> res.window,
                        ordinal |-> o.n, before |-> ObsOf(<<class, key>>).n,
                        start |-> o.start,
                        retryAfter |-> IF res.allowed THEN 0 ELSE resp.retryAfter,
                        reply |-> IF res.allowed THEN "next" ELSE resp.code,
                        status |-> IF res.allowed THEN 0 ELSE resp.status]

\* One request passing a limiter of rate-limit.ts
Admit(class, user, ip) ==
    /\ Limiter(class, user, ip)
    /\ UNCHANGED <<now, quotaVars, messageRateLimits, ticks, http,
                   billingVars, socketVars, sitesVars>>

\* handler.ts, lines 164-187: a message of an authenticated socket
Message(userId) ==
    LET res == isRateLimited(messageRateLimits, userId, now)
        o == Observe(ObsOf(<<"ws", userId>>), now, WsWindowMs)
    IN /\ o.n <= WS_MAX_MESSAGES_PER_MINUTE + MaxRejects
       /\ messageRateLimits' = res.limits
       /\ obs' = MapSet(obs, <<"ws", userId>>, o)
       /\ lastAdmit' = [class |-> "ws", id |-> <<"user", userId>>, now |-> now,
                        accepted |-> ~res.limited,
                        pre |-> Lookup(messageRateLimits, userId),
                        post |-> Lookup(res.limits, userId),
                        ordinal |-> o.n, before |-> ObsOf(<<"ws", userId>>).n,
                        start |-> o.start, retryAfter |-> 0,
                        reply |-> IF res.limited THEN "RATE_LIMITED" ELSE "handleMessage",
                        status |-> 0]
       /\ UNCHANGED <<now, quotaVars, rateWindows, ticks, http,
                   billingVars, socketVars, sitesVars>>

\* Date.now() moving on between two admits
ClockSteps == {30 * 1000, 450 * 1000}
Advance(d) ==
    /\ ticks < MaxTicks
    /\ ticks' = ticks + 1
    /\ now' = now + d
    /\ UNCHANGED <<quotaVars, rateWindows, messageRateLimits, lastAdmit, obs, http,
                   billingVars, socketVars, sitesVars>>

-----------------------------------------------------------------------------
(* The middleware chains of the routes *)

HttpSlots == {"h1"}
HttpRoutes == {"chat", "stats", "checkout"}

\* The middleware of each route in the order of its registration:
\* POST /api/ai/chat, GET /api/usage/stats, POST /api/stripe/create-checkout-session
RouteChain ==
    [chat |-> <<"ai", "requireAuth", "checkQuota", "handler">>,
     stats |-> <<"api", "requireAuth", "handler">>,
     checkout |-> <<"requireAuth", "handler">>]

\* token is the user a bearer token verifies to ("" for a missing or invalid
\* token), user is req.user ("" while it is not set)
IdleHttp ==
    [pc |-> "idle", route |-> "none", token |-> "", ip |-> "", user |-> "",
     at |-> 0, trail |-> <<>>, key |-> <<>>, status |-> 0, code |-> "none"]

\* the middleware the request stands before
Stage(h) == RouteChain[http[h].route][http[h].at]

\* next(): on to the following middleware
Forward(rq, stage) ==
    [rq EXCEPT !.at = @ + 1, !.trail = Append(@, stage),
               !.pc = IF rq.at = Len(RouteChain[rq.route]) THEN "done" ELSE "chain",
               !.status = IF rq.at = Len(RouteChain[rq.route]) THEN 200 ELSE 0,
               !.code = IF rq.at = Len(RouteChain[rq.route]) THEN "ok" ELSE "none"]

\* a response that ends the chain
Answer(rq, stage, status, code) ==
    [rq EXCEPT !.trail = Append(@, stage), !.pc = "done", !.status = status,
               !.code = code]

\* A request arrives at a route
Arrive(h, route, token, ip) ==
    /\ http[h].pc = "idle"
    /\ http' = [http EXCEPT ![h] = [IdleHttp EXCEPT !.pc = "chain", !.route = route,
                                        !.token = token, !.ip = ip, !.at = 1]]
    /\ UNCHANGED <<now, quotaVars, rateWindows, messageRateLimits, lastAdmit, obs, ticks,
                   billingVars, socketVars, sitesVars>>

\* The route's limiter runs with the request as it is at that point
RateLimit(h) ==
    /\ http[h].pc = "chain"
    /\ Stage(h) \in DOMAIN RateClasses
    /\ Limiter(Stage(h), http[h].user, http[h].ip)
    /\ http' = [http EXCEPT ![h] =
           LET rq == [http[h] EXCEPT !.key = lastAdmit'.id]
           IN IF lastAdmit'.accepted
              THEN Forward(rq, Stage(h))
              ELSE Answer(rq, Stage(h), lastAdmit'.status, lastAdmit'.reply)]
    /\ UNCHANGED <<now, quotaVars, messageRateLimits, ticks,
                   billingVars, socketVars, sitesVars>>

\* auth.ts, lines 16-51: requireAuth sets req.user from a verified token
requireAuth(h) ==
    /\ http[h].pc = "chain"
    /\ Stage(h) = "requireAuth"
    /\ http' = [http EXCEPT ![h] =
           IF http[h].token = ""
           THEN Answer(http[h], "requireAuth", 401, "AUTH_REQUIRED")
           ELSE Forward([http[h] EXCEPT !.user = http[h].token], "requireAuth")]
    /\ UNCHANGED <<now, quotaVars, rateWindows, messageRateLimits, lastAdmit, obs, ticks,
                   billingVars, socketVars, sitesVars>>

\* The authenticated request enters the quota gate or the handler of its
\* route (the requests of Start .. Finish)
EnterRoute(h) ==
    /\ http[h].pc = "chain"
    /\ Stage(h) \in {"checkQuota", "handler"}
    /\ http' = [http EXCEPT ![h] = Forward(http[h], Stage(h))]
    /\ UNCHANGED <<now, quotaVars, rateWindows, messageRateLimits, lastAdmit, obs, ticks,
                   billingVars, socketVars, sitesVars>>

\* The response is out
Respond(h) ==
    /\ http[h].pc = "done"
    /\ http' = [http EXCEPT ![h] = IdleHttp]
    /\ UNCHANGED <<now, quotaVars, rateWindows, messageRateLimits, lastAdmit, obs, ticks,
                   billingVars, socketVars, sitesVars>>

-----------------------------------------------------------------------------
(* routes/sites.ts *)

FREE_SITE_LIMIT == 5

SiteReqs == {"q1", "q2"}
Digests == 1 .. (FREE_SITE_LIMIT + 1)

NoLimitCheck ==
    [can_add |-> FALSE, site_count |-> 0, is_premium |-> FALSE, is_existing_site |-> FALSE]

IdleSiteReq ==
    [pc |-> "idle", user |-> "none", digest |-> 0, limitCheck |-> NoLimitCheck,
     status |-> 0]

SitesOf(sites, u) == {site \in sites : site[1] = u}

\* The store procedure can_add_site: a premium user may always add, a site
\* already saved may always be saved again, and a new site may be added while
\* the user holds fewer than FREE_SITE_LIMIT sites
can_add_site(sites, status, user_uuid, site_url_digest) ==
    LET count == Cardinality(SitesOf(sites, user_uuid))
        premium == isPremiumUser("ok", status)
        existing == <<user_uuid, site_url_digest>> \in sites
    IN [can_add |-> premium \/ existing \/ count < FREE_SITE_LIMIT,
        site_count |-> count, is_premium |-> premium, is_existing_site |-> existing]

\* POST /sites/save, lines 23-26: a save request of user u for a page
SaveStart(q, u, digest) ==
    /\ siteReq[q].pc = "idle"
    /\ digest \in Digests
    /\ siteReq' = [siteReq EXCEPT ![q] =
                      [IdleSiteReq EXCEPT !.pc = "check", !.user = u, !.digest = digest]]
    /\ UNCHANGED <<now, quotaVars, rateVars, billingVars, socketVars, user_sites>>

\* POST /sites/save, lines 28-48: the limit check came back; an error is
\* answered 500, a refusal 403
SaveCheck(q, outcome) ==
    /\ siteReq[q].pc = "check"
    /\ outcome \in {"ok", "error"}
    /\ LET limitCheck == can_add_site(user_sites, user_profiles[siteReq[q].user],
                                      siteReq[q].user, siteReq[q].digest)
       IN siteReq' = [siteReq EXCEPT ![q] =
              IF outcome = "error"
              THEN [IdleSiteReq EXCEPT !.pc = "done", !.status = 500]
              ELSE IF ~limitCheck.can_add
              THEN [IdleSiteReq EXCEPT !.pc = "done", !.status = 403]
              ELSE [@ EXCEPT !.pc = "upsert", !.limitCheck = limitCheck]]
    /\ UNCHANGED <<now, quotaVars, rateVars, billingVars, socketVars, user_sites>>

\* POST /sites/save, lines 50-78: the upsert on (user_id, url_digest)
SaveUpsert(q, outcome) ==
    /\ siteReq[q].pc = "upsert"
    /\ outcome \in {"ok", "error"}
    /\ user_sites' = IF outcome = "ok"
                     THEN user_sites \cup {<<siteReq[q].user, siteReq[q].digest>>}
                     ELSE user_sites
    /\ siteReq' = [siteReq EXCEPT ![q] =
                      [IdleSiteReq EXCEPT !.pc = "done",
                                          !.status = IF outcome = "ok" THEN 200 ELSE 500]]
    /\ UNCHANGED <<now, quotaVars, rateVars, billingVars, socketVars>>

\* the response is out
SaveFinish(q) ==
    /\ siteReq[q].pc = "done"
    /\ siteReq' = [siteReq EXCEPT ![q] = IdleSiteReq]
    /\ UNCHANGED <<now, quotaVars, rateVars, billingVars, socketVars, user_sites>>

\* DELETE /sites/:urlDigest, lines 159-183: one delete of the user's site
DeleteSite(u, digest) ==
    /\ <<u, digest>> \in user_sites
    /\ user_sites' = user_sites \ {<<u, digest>>}
    /\ UNCHANGED <<now, quotaVars, rateVars, billingVars, socketVars, siteReq>>

-----------------------------------------------------------------------------
(* websocket/handler.ts: connections *)

WS_CONNECTION_LIMIT_PER_USER == 3

\* a token is written as what verifyToken finds in it: a user, nothing
\* ("invalid"), or there is no token at all ("none")
SocketTokens == {"none", "invalid"} \cup Users

Sockets == 1 .. MaxSockets

\* A socket the server has not yet seen.  pc is the position of the
\* 'connection' callback: "verify" while verifyToken is awaited, "live" once
\* the 'pong', 'message' and 'close' listeners are registered, "rejected" when
\* the callback returned before.  pinged, answered, missed and terminated are
\* history: a ping is out, the client has answered it, the client left a ping
\* unanswered, the heartbeat terminated the socket.
NoSocket ==
    [pc |-> "new", token |-> "none", user |-> "none", readyState |-> "NEW",
     closeCode |-> 0, isAlive |-> "undefined", welcomed |-> FALSE, tracked |-> FALSE,
     handled |-> FALSE, pinged |-> FALSE, answered |-> FALSE, missed |-> FALSE,
     terminated |-> FALSE]

\* a check that still admits a user who holds the limit
canConnectInclusive(counts, userId) == counts[userId] <= WS_CONNECTION_LIMIT_PER_USER

\* lines 44-47; the map is read with `|| 0`
canConnect(counts, userId) == counts[userId] < WS_CONNECTION_LIMIT_PER_USER

\* lines 52-55
trackConnection(counts, userId) == [counts EXCEPT ![userId] = @ + 1]

\* lines 60-67: delete(userId) leaves the `|| 0` of the next read
untrackConnection(counts, userId) ==
    [counts EXCEPT ![userId] = IF @ > 1 THEN @ - 1 ELSE 0]

\* ws.close(code): starts the closing handshake of an open socket
wsClose(ws, code) ==
    IF ws.readyState = "OPEN"
    THEN [ws EXCEPT !.readyState = "CLOSING", !.closeCode = code]
    ELSE ws

\* lines 158-196: the listeners are registered at the end of the callback
HandlersRegistered(ws) == ws.pc = "live"

\* lines 208-212: sendMessage writes to an open socket only
CanSend(ws) == ws.readyState = "OPEN"

\* lines 257-264
sendToUser(userId) ==
    connections[userId] \in Sockets /\ CanSend(sockets[connections[userId]])

\* wss.on('connection'), lines 111-126: a client connects; without a token
\* the socket is closed with 4001, else verifyToken is awaited.  Sockets are
\* numbered in the order of their arrival.
Connect(s, token) ==
    /\ sockets[s].pc = "new"
    /\ \A o \in Sockets : o < s => sockets[o].pc # "new"
    /\ token \in SocketTokens
    /\ LET ws == [sockets[s] EXCEPT !.readyState = "OPEN", !.token = token]
       IN sockets' = [sockets EXCEPT ![s] =
                         IF token = "none"
                         THEN [wsClose(ws, 4001) EXCEPT !.pc = "rejected"]
                         ELSE [ws EXCEPT !.pc = "verify"]]
    /\ UNCHANGED <<now, quotaVars, rateVars, billingVars, sitesVars,
                   userConnectionCounts, connections, lastMessage, beats>>

\* a verification that takes a token it cannot verify for a guest's
verifyTokenGuest(token, ok) == IF token \in Users THEN token ELSE "u2"

\* lib/supabase.ts, lines 11-24: the token's user, or null ("none") when the
\* token is not valid or the auth service fails (ok false)
verifyToken(token, ok) == IF ok /\ token \in Users THEN token ELSE "none"

\* line 146: connections.set(user.id, ws) replaces the user's entry
ConnectionsAfterTrack(map, userId, s) == [map EXCEPT ![userId] = s]

\* wss.on('connection'), lines 126-156: verifyToken came back, with the
\* token's user or (ok false: the auth service failed) with null
Verify(s, ok) ==
    /\ sockets[s].pc = "verify"
    /\ LET ws == sockets[s]
           user == verifyToken(ws.token, ok)
       IN IF user = "none"
          THEN /\ sockets' = [sockets EXCEPT ![s] =
                                 [wsClose(ws, 4002) EXCEPT !.pc = "rejected"]]
               /\ UNCHANGED <<userConnectionCounts, connections>>
          ELSE IF ~canConnect(userConnectionCounts, user)
          THEN /\ sockets' = [sockets EXCEPT ![s] =
                                 [wsClose(ws, 4003) EXCEPT !.pc = "rejected"]]
               /\ UNCHANGED <<userConnectionCounts, connections>>
          ELSE /\ sockets' = [sockets EXCEPT ![s] =
                                 [ws EXCEPT !.pc = "live", !.user = user,
                                            !.isAlive = "true", !.tracked = TRUE,
                                            !.welcomed = CanSend(ws)]]
               /\ userConnectionCounts' = trackConnection(userConnectionCounts, user)
               /\ connections' = ConnectionsAfterTrack(connections, user, s)
    /\ UNCHANGED <<now, quotaVars, rateVars, billingVars, sitesVars, lastMessage, beats>>

\* ws.on('close'), line 192: connections.delete(ws.user.id)
ConnectionsAfterClose(map, userId, s) == [map EXCEPT ![userId] = 0]

\* The socket is closed and 'close' is emitted: the listener of lines 190-196
\* runs if it is registered by then, else the event is lost
EmitClose(s) ==
    /\ sockets' = [sockets EXCEPT ![s].readyState = "CLOSED"]
    /\ IF HandlersRegistered(sockets[s])
       THEN /\ connections' = ConnectionsAfterClose(connections, sockets[s].user, s)
            /\ userConnectionCounts' =
                   untrackConnection(userConnectionCounts, sockets[s].user)
       ELSE UNCHANGED <<userConnectionCounts, connections>>
    /\ UNCHANGED <<now, quotaVars, rateVars, billingVars, sitesVars, lastMessage, beats>>

\* the client goes away, or the network drops the connection
ClientClose(s) ==
    /\ sockets[s].readyState = "OPEN"
    /\ EmitClose(s)

\* the closing handshake the server started (close or terminate) ends
CloseHandshake(s) ==
    /\ sockets[s].readyState = "CLOSING"
    /\ EmitClose(s)

\* History of the socket messages: the latest one, and per user the
\* messages seen and those passed to handleMessage in the user's present window
NoMessage ==
    [socket |-> 0, user |-> "none", limited |-> FALSE, pre |-> NoWindow,
     post |-> NoWindow, reply |-> "none", parsed |-> FALSE, handled |-> FALSE,
     seen |-> [u \in Users |-> 0], count |-> [u \in Users |-> 0], bad |-> 0]

\* a message handler that parses before it asks the limiter
MessageReplyParseFirst(limited, wellFormed) ==
    IF ~wellFormed THEN "Invalid message format"
    ELSE IF limited THEN "RATE_LIMITED"
    ELSE "handleMessage"

\* ws.on('message'), lines 165-186: the limiter's verdict first, then
\* JSON.parse, then handleMessage
MessageReply(limited, wellFormed) ==
    IF limited THEN "RATE_LIMITED"
    ELSE IF ~wellFormed THEN "Invalid message format"
    ELSE "handleMessage"

\* ws.on('message'), lines 164-187: a message arrives on a socket whose
\* listeners are registered; cap bounds the messages of one window
SocketMessage(s, wellFormed, cap) ==
    /\ HandlersRegistered(sockets[s])
    /\ sockets[s].readyState = "OPEN"
    /\ LET u == sockets[s].user
           res == isRateLimited(messageRateLimits, u, now)
           pre == Lookup(messageRateLimits, u)
           post == Lookup(res.limits, u)
           restart == ~pre.set \/ now >= pre.resetTime
           reply == MessageReply(res.limited, wellFormed)
           handled == reply = "handleMessage"
       IN /\ restart \/ lastMessage.seen[u] < cap
          /\ wellFormed \/ lastMessage.bad < MaxBadMessages
          /\ messageRateLimits' = res.limits
          /\ sockets' = [sockets EXCEPT ![s].handled = @ \/ handled]
          /\ lastMessage' =
                 [socket |-> s, user |-> u, limited |-> res.limited, pre |-> pre,
                  post |-> post, reply |-> reply,
                  parsed |-> ~res.limited, handled |-> handled,
                  seen |-> [lastMessage.seen EXCEPT
                               ![u] = IF restart THEN 1 ELSE @ + 1],
                  count |-> [lastMessage.count EXCEPT
                                ![u] = (IF restart THEN 0 ELSE @)
                                         + (IF handled THEN 1 ELSE 0)],
                  bad |-> lastMessage.bad + (IF wellFormed THEN 0 ELSE 1)]
    /\ UNCHANGED <<now, quotaVars, rateWindows, lastAdmit, obs, ticks, http, billingVars,
                   sitesVars, userConnectionCounts, connections, beats>>

\* one socket at a heartbeat tick, lines 96-104: terminate() if isAlive is
\* false, else isAlive = false and ping()
HeartbeatOne(ws) ==
    IF ws.readyState \notin {"OPEN", "CLOSING"}
    THEN ws
    ELSE IF ws.isAlive = "false"
    THEN [ws EXCEPT !.readyState = "CLOSING", !.terminated = TRUE,
                    !.missed = @ \/ (ws.pinged /\ ~ws.answered)]
    ELSE [ws EXCEPT !.isAlive = "false", !.pinged = TRUE, !.answered = FALSE,
                    !.missed = @ \/ (ws.pinged /\ ~ws.answered)]

\* setInterval callback, lines 95-105: the heartbeat runs over wss.clients
Heartbeat ==
    /\ beats < MaxBeats
    /\ beats' = beats + 1
    /\ sockets' = [s \in Sockets |-> HeartbeatOne(sockets[s])]
    /\ UNCHANGED <<now, quotaVars, rateVars, billingVars, sitesVars,
                   userConnectionCounts, connections, lastMessage>>

\* the client answers the ping that is out; ws.on('pong'), lines 159-161,
\* sets isAlive if it is registered by then
Pong(s) ==
    /\ sockets[s].readyState = "OPEN"
    /\ sockets[s].pinged /\ ~sockets[s].answered
    /\ sockets' = [sockets EXCEPT ![s] =
                      [@ EXCEPT !.answered = TRUE,
                                !.isAlive = IF HandlersRegistered(sockets[s])
                                            THEN "true" ELSE @]]
    /\ UNCHANGED <<now, quotaVars, rateVars, billingVars, sitesVars,
                   userConnectionCounts, connections, lastMessage, beats>>

SocketInit ==
    /\ sockets = [s \in Sockets |-> NoSocket]
    /\ userConnectionCounts = [u \in Users |-> 0]
    /\ connections = [u \in Users |-> 0]
    /\ lastMessage = NoMessage
    /\ beats = 0

RateInit ==
    /\ rateWindows = <<>>
    /\ messageRateLimits = <<>>
    /\ lastAdmit = NoAdmit
    /\ obs = <<>>
    /\ ticks = 0
    /\ http = [h \in HttpSlots |-> IdleHttp]

\* The state after the process started: empty cache, empty ledger.  The
\* tier_limits table and the user's subscription are what the deployment holds.
Init ==
    /\ now = 0
    /\ month = 11
    /\ tier_limits = ConfiguredTable
    /\ limitsCache = NoCache
    /\ cacheHist = NoHist
    /\ user_profiles \in [Users -> {"free", "active"}]
    /\ user_profiles["u2"] = "free"
    /\ user_token_limits = [u \in Users |-> NoRow]
    /\ token_usage = EmptyBag
    /\ req = [r \in Reqs |-> IdleReq]
    /\ started = 0
    /\ faults = 0
    /\ incN = ZeroCounts
    /\ incSum = ZeroCounts
    /\ incAmt = ZeroCounts
    /\ overlap = FALSE
    /\ RateInit
    /\ stripe_subscriptions =
           [u \in Users |-> IF user_profiles[u] = "active"
                            THEN ActiveSubscription ELSE NoSubscription]
    /\ webhooks = {}
    /\ cancelPc = [u \in Users |-> "idle"]
    /\ cancelled = [u \in Users |-> FALSE]
    /\ SocketInit
    /\ user_sites = {}
    /\ siteReq = [r \in SiteReqs |-> IdleSiteReq]

\* One request at a time, of one user, with store faults
Next ==
    \/ \E route \in Routes, c \in RealtimeCosts : Start("r1", "u1", route, c, MaxRequests)
    \/ \E outcome \in Outcomes : TierLookup("r1", outcome)
    \/ LimitsStart("r1")
    \/ \E outcome \in Outcomes : LimitsRead("r1", outcome)
    \/ LimitsFetch("r1")
    \/ \E outcome \in Outcomes : LedgerRead("r1", outcome)
    \/ DenyRespond("r1")
    \/ \E valid \in BOOLEAN : Handler("r1", valid)
    \/ UpstreamFails("r1")
    \/ \E c \in ChatCosts \cup TtsCosts : UpstreamDone("r1", c)
    \/ \E outcome \in Outcomes : RecInsert("r1", outcome)
    \/ \E outcome \in Outcomes : RecRpc("r1", outcome)
    \/ Finish("r1")
    \/ NextMonth

Spec == Init /\ [][Next]_vars

\* Two requests of one user in flight at once within one calendar month, the
\* store answering every call
LedgerRoutes == Routes

NextLedger ==
    \/ \E r \in Reqs, route \in LedgerRoutes, c \in RealtimeCosts :
           Start(r, "u1", route, c, MaxLedgerRequests)
    \/ \E r \in Reqs : TierLookup(r, "ok")
    \/ \E r \in Reqs : LimitsStart(r)
    \/ \E r \in Reqs : LimitsRead(r, "ok")
    \/ \E r \in Reqs : LimitsFetch(r)
    \/ \E r \in Reqs : LedgerRead(r, "ok")
    \/ \E r \in Reqs : DenyRespond(r)
    \/ \E r \in Reqs : Handler(r, TRUE)
    \/ \E r \in Reqs, c \in ChatCosts \cup TtsCosts : UpstreamDone(r, c)
    \/ \E r \in Reqs : RecInsert(r, "ok")
    \/ \E r \in Reqs : RecRpc(r, "ok")
    \/ \E r \in Reqs : Finish(r)

SpecLedger == Init /\ [][NextLedger]_vars

\* The limits cache alone: GET /usage/limits one request at a time, the clock
\* moving (a second of store latency, or nearly the TTL), the store failing,
\* an administrator rewriting the table and invalidating the cache
LimitsClockSteps == {1000, LIMITS_CACHE_TTL - 1000}

NextLimits ==
    \/ StartLimits("r1", MaxLimitRequests)
    \/ LimitsStart("r1")
    \/ \E outcome \in Outcomes : LimitsRead("r1", outcome)
    \/ LimitsFetch("r1")
    \/ LimitsRespond("r1")
    \/ Finish("r1")
    \/ \E d \in LimitsClockSteps : Advance(d)
    \/ \E table \in LimitTables : AdminUpdate(table)
    \/ clearLimitsCache

SpecLimits == Init /\ [][NextLimits]_vars

\* Recording: requests of two users on the chat and speech routes and on the
\* realtime report, one at a time; the quota reads answer, the upstream call
\* and the two writes of recordTokenUsage may fail, also one after the other
RecordRoutes == {"chat", "tts", "record-realtime"}

NextRecord ==
    \/ \E u \in Users, route \in RecordRoutes, c \in RealtimeCosts :
           Start("r1", u, route, c, MaxRecordRequests)
    \/ TierLookup("r1", "ok")
    \/ LimitsStart("r1")
    \/ LimitsRead("r1", "ok")
    \/ LimitsFetch("r1")
    \/ LedgerRead("r1", "ok")
    \/ DenyRespond("r1")
    \/ Handler("r1", TRUE)
    \/ UpstreamFails("r1")
    \/ \E c \in ChatCosts \cup TtsCosts : UpstreamDone("r1", c)
    \/ \E outcome \in Outcomes : RecInsert("r1", outcome)
    \/ \E outcome \in Outcomes : RecRpc("r1", outcome)
    \/ Finish("r1")
    \/ NextMonth
    \/ Recover

SpecRecord == Init /\ [][NextRecord]_vars

\* Billing alone: the users subscribe, cancel, and reach the end of the paid
\* period, while Stripe's events arrive in any order
NextBilling ==
    \/ \E u \in Users : Checkout(u)
    \/ \E u \in Users : CancelAtStripe(u)
    \/ \E u \in Users : CancelProfile(u)
    \/ \E u \in Users : PeriodEnds(u)
    \/ \E event \in webhooks : Webhook(event)

SpecBilling == Init /\ [][NextBilling]_vars

\* The socket server under load: one user's clients connect one after the
\* other or at once, verification answers or fails, and clients leave at any
\* moment, also while their token is being verified
NextSockets ==
    \/ \E s \in Sockets : Connect(s, "u1")
    \/ \E s \in Sockets, ok \in BOOLEAN : Verify(s, ok)
    \/ \E s \in Sockets : ClientClose(s)
    \/ \E s \in Sockets : CloseHandshake(s)

SpecSockets == Init /\ [][NextSockets]_vars

\* Authentication: two clients with any token or none, and their messages
AuthSockets == {1, 2, 3}

NextAuth ==
    \/ \E s \in AuthSockets, token \in SocketTokens : Connect(s, token)
    \/ \E s \in AuthSockets, ok \in BOOLEAN : Verify(s, ok)
    \/ \E s \in AuthSockets : ClientClose(s)
    \/ \E s \in AuthSockets : CloseHandshake(s)
    \/ \E s \in AuthSockets : SocketMessage(s, TRUE, MaxSocketMessages)

SpecAuth == Init /\ [][NextAuth]_vars

\* Two sockets of one user sending messages while the clock moves by half
\* windows
ThrottleSockets == {1, 2}

NextThrottle ==
    \/ \E s \in ThrottleSockets : Connect(s, "u1")
    \/ \E s \in ThrottleSockets : Verify(s, TRUE)
    \/ \E s \in ThrottleSockets, wellFormed \in BOOLEAN :
           SocketMessage(s, wellFormed, WS_MAX_MESSAGES_PER_MINUTE + MaxRejects)
    \/ Advance(WsWindowMs \div 2)

SpecThrottle == Init /\ [][NextThrottle]_vars

\* The heartbeat over sockets that connect, are verified, answer pings or do
\* not, and leave
HeartbeatSockets == {1, 2}

NextHeartbeat ==
    \/ \E s \in HeartbeatSockets, token \in {"invalid", "u1"} : Connect(s, token)
    \/ \E s \in HeartbeatSockets : Verify(s, TRUE)
    \/ \E s \in HeartbeatSockets : ClientClose(s)
    \/ \E s \in HeartbeatSockets : CloseHandshake(s)
    \/ \E s \in HeartbeatSockets : Pong(s)
    \/ Heartbeat

SpecHeartbeat == Init /\ [][NextHeartbeat]_vars

\* The sites routes: two save requests of one user in flight at once, and
\* deletes
SiteUsers == {"u1"}

NextSites ==
    \/ \E q \in SiteReqs, u \in SiteUsers, digest \in Digests : SaveStart(q, u, digest)
    \/ \E q \in SiteReqs, outcome \in {"ok", "error"} : SaveCheck(q, outcome)
    \/ \E q \in SiteReqs, outcome \in {"ok", "error"} : SaveUpsert(q, outcome)
    \/ \E q \in SiteReqs : SaveFinish(q)
    \/ \E u \in SiteUsers, digest \in Digests : DeleteSite(u, digest)

SpecSites == Init /\ [][NextSites]_vars

\* The limiters alone: one address on the auth class, one user's socket
RateLimitedClasses == {"auth"}
Addresses == {"a1"}
SocketUsers == {"u1"}

NextRate ==
    \/ \E class \in RateLimitedClasses, ip \in Addresses : Admit(class, "", ip)
    \/ \E u \in SocketUsers : Message(u)
    \/ \E d \in ClockSteps : Advance(d)

SpecRate == Init /\ [][NextRate]_vars

\* Requests of two users and of callers without a token, from two addresses,
\* through the routes' chains.  Address a1 may exhaust the
\* AI class, every other window is lightly loaded.
Tokens == {"", "u1", "u2"}
HttpAddresses == {"a1", "a2"}
Heavy(route, ip) == route = "chat" /\ ip = "a1"
LimiterOf(route) == RouteChain[route][1]
LightlyLoaded(route, ip) ==
    \/ LimiterOf(route) \notin DOMAIN RateClasses
    \/ ObsOf(<<LimiterOf(route), <<"ip", ip>>>>).n < MaxLightAdmits

NextHttp ==
    \/ \E h \in HttpSlots, route \in HttpRoutes, token \in Tokens :
           \E ip \in {a \in HttpAddresses : Heavy(route, a) \/ LightlyLoaded(route, a)} :
               Arrive(h, route, token, ip)
    \/ \E h \in HttpSlots : RateLimit(h)
    \/ \E h \in HttpSlots : requireAuth(h)
    \/ \E h \in HttpSlots : EnterRoute(h)
    \/ \E h \in HttpSlots : Respond(h)

SpecHttp == Init /\ [][NextHttp]_vars

\* The limiters alone, several classes and identities side by side: two
\* addresses on the AI and the read class, two users' sockets
WindowClasses == {"ai", "api"}

NextWindows ==
    \/ \E class \in WindowClasses :
           \E ip \in {a \in HttpAddresses :
                          \/ class = "ai" /\ a = "a1"
                          \/ ObsOf(<<class, <<"ip", a>>>>).n < MaxLightAdmits} :
               Admit(class, "", ip)
    \/ \E u \in {v \in Users : ObsOf(<<"ws", v>>).n < MaxLightAdmits} : Message(u)

SpecWindows == Init /\ [][NextWindows]_vars

-----------------------------------------------------------------------------
(* Properties *)

\* The usage a ledger row holds for a feature in the month whose marker is m
LedgerUsage(row, m, e) ==
    IF row.exists /\ row.month_start = m THEN row[e] ELSE 0

Endpoint(r) == RouteEndpoint(req[r].route)

\* the quota check of request r has returned, its ledger read having succeeded
CheckedOk(r) == req[r].tokenQuota.set /\ req[r].tokenQuota.outcome = "ok"

\* C1: whenever checkFeatureLimit returns after reading the ledger, used is
\* the current-month usage the ledger holds for the user and feature, limit is
\* the tier's limit for the feature, allowed holds exactly when used < limit,
\* and remaining = max(0, limit - used), hence 0 when the request is denied.
C1_QuotaGateDecision ==
    \A r \in Reqs :
        LET q == req[r].tokenQuota
        IN CheckedOk(r) =>
              /\ q.used = LedgerUsage(q.row, q.monthStart, Endpoint(r))
              /\ q.limit = req[r].lim[Endpoint(r)]
              /\ q.allowed <=> (q.used < q.limit)
              /\ q.remaining = Max(0, q.limit - q.used)
              /\ (~q.allowed => q.remaining = 0)

\* a check that denies a user who is exactly at a positive limit
C1_Witness ==
    \E r \in Reqs :
        LET q == req[r].tokenQuota
        IN CheckedOk(r) /\ ~q.allowed /\ q.limit > 0 /\ q.used = q.limit /\ q.remaining = 0

\* C2: whenever the ledger read fails (the store call raises, or returns an
\* error other than 'no rows'), checkFeatureLimit returns allowed = true with
\* used = 0, whatever the tier, the feature and the configured limit.
C2_FailOpen ==
    \A r \in Reqs :
        LET q == req[r].tokenQuota
        IN (q.set /\ q.outcome \in {"error", "throw"}) => (q.allowed /\ q.used = 0)

\* C3: after N successful recordTokenUsage calls of amount a each for a user
\* and feature within one month, starting from usage 0, the next
\* checkFeatureLimit for them reports used = N * a (and the sum of the
\* amounts when they differ).
C3_NoLostUpdatesSequential ==
    \A r \in Reqs :
        LET q == req[r].tokenQuota
        IN CheckedOk(r) =>
              /\ q.used = q.incSum
              /\ (q.incAmt >= 0 => q.used = q.incN * q.incAmt)

\* a check that reports 2 * a after two recordings of a
C3_Witness ==
    \E r \in Reqs :
        LET q == req[r].tokenQuota
        IN CheckedOk(r) /\ q.incN = 2 /\ q.incAmt > 0 /\ q.used = 2 * q.incAmt

\* C4: under every interleaving of concurrent recordTokenUsage calls for one
\* (user, feature), the feature's current-month counter is the number of
\* completed calls times their amount (the sum of the amounts when they
\* differ): no update is lost.
C4_NoLostUpdatesConcurrent ==
    \A u \in Users, e \in Endpoints :
        LET counter == LedgerUsage(user_token_limits[u], getMonthStart(month), e)
        IN /\ counter = incSum[u][e]
           /\ (incAmt[u][e] >= 0 => counter = incN[u][e] * incAmt[u][e])

\* two recordings of the same amount ran concurrently and both are counted
C4_Witness ==
    \E u \in Users, e \in Endpoints :
        /\ overlap
        /\ incN[u][e] = 2
        /\ incAmt[u][e] > 0
        /\ user_token_limits[u][e] = 2 * incAmt[u][e]
        /\ \A r \in Reqs : req[r].pc = "done" /\ req[r].user = u /\ Endpoint(r) = e
                            /\ req[r].increments = 1

\* C5: the usage checkFeatureLimit reports is 0 when the user has no usage
\* row or the row's month marker is not the current month, and is otherwise
\* the stored counter of exactly the feature asked for; no reset has to run.
C5_LazyRolloverOnRead ==
    \A r \in Reqs :
        LET q == req[r].tokenQuota
        IN CheckedOk(r) =>
              q.used = IF ~q.row.exists \/ q.row.month_start # q.monthStart
                       THEN 0
                       ELSE q.row[Endpoint(r)]

\* a row holding usage under an earlier month reads as 0
C5_Witness ==
    \E r \in Reqs :
        LET q == req[r].tokenQuota
        IN /\ CheckedOk(r)
           /\ q.row.exists
           /\ q.row.month_start # q.monthStart
           /\ q.row[Endpoint(r)] > 0
           /\ q.used = 0

\* the successful increment of request r met a row of an earlier month
RolledOver(r) ==
    /\ req[r].pc = "done"
    /\ req[r].increments = 1
    /\ req[r].rpcPrev.exists
    /\ req[r].rpcPrev.month_start # getMonthStart(req[r].rpcAt)

\* C6: the first increment of amount a in a new calendar month, applied to a
\* row whose marker is an earlier month, leaves the feature's counter equal
\* to a, sets the marker to the current month, and a following read in that
\* month reports a.
C6_LazyRolloverOnIncrement ==
    \A r \in Reqs :
        RolledOver(r) =>
            LET row == user_token_limits[req[r].user]
            IN /\ row[Endpoint(r)] = req[r].cost
               /\ row.month_start = getMonthStart(req[r].rpcAt)
               /\ UsedFromRow(row, getMonthStart(req[r].rpcAt), Endpoint(r)) = req[r].cost

\* the row held usage of the same feature under the earlier month
C6_Witness ==
    \E r \in Reqs :
        /\ RolledOver(r)
        /\ req[r].rpcPrev[Endpoint(r)] > 0
        /\ user_token_limits[req[r].user][Endpoint(r)] = req[r].cost

\* C7: a quota check that starts when the user's recorded current-month usage
\* is at or above the limit, and reads the ledger in that month, returns
\* allowed = false; a request whose check saw usage below the limit is never
\* answered 'limit reached' and its handler runs, whatever it costs.
C7_BlockedOnNextCall ==
    \A r \in Reqs :
        LET q == req[r].tokenQuota
        IN /\ (CheckedOk(r) /\ q.monthStart = getMonthStart(req[r].m0)
                  /\ req[r].u0 >= q.limit) => ~q.allowed
           /\ (CheckedOk(r) /\ q.used < q.limit) =>
                  /\ req[r].resp.code # "TOKEN_LIMIT_REACHED"
                  /\ req[r].pc \in {"handler", "upstream", "rec_insert", "rec_rpc", "done"}
                  /\ (req[r].pc # "handler" => req[r].handler)

\* a call admitted below the limit finished above it
C7_Witness ==
    \E r \in Reqs :
        LET q == req[r].tokenQuota
        IN /\ CheckedOk(r) /\ q.allowed /\ q.used > 0
           /\ req[r].pc = "done" /\ req[r].increments = 1
           /\ LedgerUsage(user_token_limits[req[r].user], q.monthStart, Endpoint(r)) > q.limit

\* the next call after one that finished above the limit is blocked
C7_BlockedWitness ==
    \E r \in Reqs :
        LET q == req[r].tokenQuota
        IN CheckedOk(r) /\ req[r].u0 > q.limit /\ q.limit > 0 /\ ~q.allowed

\* A denied request never reaches its handler, the upstream operation or the
\* ledger, and its response carries the figures of the check.
ShortCircuitOnDenial ==
    \A r \in Reqs :
        LET q == req[r].tokenQuota
        IN (q.set /\ ~q.allowed) =>
              /\ ~req[r].handler /\ ~req[r].upstream
              /\ req[r].events = 0 /\ req[r].increments = 0
              /\ req[r].pc \in {"limits", "fetch", "fetched", "deny", "done"}
              /\ (req[r].pc = "done" =>
                     /\ req[r].resp.code = "TOKEN_LIMIT_REACHED"
                     /\ req[r].resp.limit = q.limit
                     /\ req[r].resp.used = q.used
                     /\ req[r].resp.remaining = q.remaining
                     /\ req[r].resp.resetDate = q.resetDate)

\* C8: when the quota check of a metered endpoint returns allowed = false the
\* handler is never invoked, no upstream call is made, no usage is recorded,
\* and the 'limit reached' response carries limit, used, remaining, resetDate
\* and an upgrade flag that is true exactly for the users who are not premium.
C8_ShortCircuitOnDenial ==
    /\ ShortCircuitOnDenial
    /\ \A r \in Reqs :
           req[r].resp.code = "TOKEN_LIMIT_REACHED" =>
               (req[r].resp.upgrade <=> user_profiles[req[r].user] \notin PremiumStatuses)

\* ceiling and window length of the class of an admit
CeilingOf(class) ==
    IF class = "ws" THEN WS_MAX_MESSAGES_PER_MINUTE ELSE RateClasses[class].max
WindowOf(class) ==
    IF class = "ws" THEN WsWindowMs ELSE RateClasses[class].windowMs

Admitted == lastAdmit.class # "none"

\* C9: for a class with max = K per window W, the first K admits of one
\* identity within a window are all accepted, and the (K+1)th admit within W
\* of the first is rejected (auth: 5 per 15 minutes, WebSocket messages: 60
\* per minute).
C9_RateLimitCeiling ==
    Admitted =>
        LET K == CeilingOf(lastAdmit.class)
            W == WindowOf(lastAdmit.class)
        IN /\ lastAdmit.now < lastAdmit.start + W
           /\ (lastAdmit.ordinal <= K => lastAdmit.accepted)
           /\ (lastAdmit.ordinal = K + 1 => ~lastAdmit.accepted)

\* the 6th auth admit is rejected while the socket user's 61st message,
\* sent later within the minute of the first, had been rejected too
C9_Witness ==
    /\ lastAdmit.class = "auth"
    /\ lastAdmit.ordinal = 6
    /\ ~lastAdmit.accepted
    /\ lastAdmit.pre.count = 5
    /\ lastAdmit.now > lastAdmit.start
    /\ \E u \in SocketUsers :
          /\ ObsOf(<<"ws", u>>).n = 61
          /\ Lookup(messageRateLimits, u).count = 60
          /\ now < Lookup(messageRateLimits, u).resetTime

\* C10: an admit arriving at or after the window's reset timestamp is accepted
\* and starts a new window with count = 1 and reset = now + windowDuration,
\* however many requests the previous window counted or rejected; a rejected
\* admit never moves the reset timestamp of the current window.
C10_FixedWindowRestart ==
    Admitted =>
        /\ (lastAdmit.pre.set /\ lastAdmit.now >= lastAdmit.pre.resetTime) =>
              /\ lastAdmit.accepted
              /\ lastAdmit.post.count = 1
              /\ lastAdmit.post.resetTime = lastAdmit.now + WindowOf(lastAdmit.class)
        /\ ~lastAdmit.accepted => lastAdmit.post.resetTime = lastAdmit.pre.resetTime

\* a message arriving exactly at the reset of a window that rejected messages
C10_Witness ==
    /\ lastAdmit.class = "ws"
    /\ lastAdmit.before > WS_MAX_MESSAGES_PER_MINUTE
    /\ lastAdmit.pre.count = WS_MAX_MESSAGES_PER_MINUTE
    /\ lastAdmit.now = lastAdmit.pre.resetTime
    /\ lastAdmit.accepted
    /\ lastAdmit.post.count = 1

\* the latest admit was one of a limiter of rate-limit.ts and was rejected
HttpRejected == lastAdmit.class \in DOMAIN RateClasses /\ ~lastAdmit.accepted

ClassOfRoute(route) ==
    IF route \in HttpRoutes /\ LimiterOf(route) \in DOMAIN RateClasses
    THEN LimiterOf(route) ELSE "none"

\* the positions of the trail at which a limiter ran
LimiterRuns(t) == {i \in 1..Len(t) : t[i] \in DOMAIN RateClasses}

\* the positions at which authentication, the quota gate or the handler ran
LaterRuns(t) == {i \in 1..Len(t) : t[i] \in {"requireAuth", "checkQuota", "handler"}}

\* C12: on the user-or-IP classes a request of an authenticated user is counted
\* in the window keyed by that user's id (so one user is limited across
\* addresses and two users behind one address do not share a window), and only
\* a request without an authenticated principal is keyed by its address.
C12_RateLimitIdentity ==
    \A h \in HttpSlots :
        LET rq == http[h]
        IN (rq.key # <<>> /\ RateClasses[ClassOfRoute(rq.route)].key = "userOrIp") =>
               rq.key = IF rq.token # "" THEN <<"user", rq.token>> ELSE <<"ip", rq.ip>>

\* What the chains do instead: the limiter runs before requireAuth has set
\* req.user, so every request is keyed by its address.
KeyedByAddress ==
    \A h \in HttpSlots : http[h].key # <<>> => http[h].key = <<"ip", http[h].ip>>

\* a request rejected by its limiter reaches nothing behind the limiter
RejectedStopsChain ==
    \A h \in HttpSlots :
        http[h].code = "RATE_LIMITED" =>
            /\ LaterRuns(http[h].trail) = {}
            /\ http[h].pc = "done"
            /\ http[h].status = 429

\* C13: every request to an API route passes exactly one rate-limiter admit
\* before authentication or any handler logic runs, and a request the limiter
\* rejects never reaches authentication, the quota gate or the handler.
C13_AdmissionBeforeHandling ==
    /\ RejectedStopsChain
    /\ \A h \in HttpSlots :
           LET t == http[h].trail
           IN LaterRuns(t) # {} =>
                 /\ Cardinality(LimiterRuns(t)) = 1
                 /\ \A i \in LimiterRuns(t), j \in LaterRuns(t) : i < j

\* every window there is: the limiters' per address, the sockets' per user
WindowKeys ==
    {<<c, <<"ip", a>>>> : c \in DOMAIN RateClasses, a \in HttpAddresses}
        \cup {<<"ws", <<"user", u>>>> : u \in Users}

WindowIn(windows, limits, wk) ==
    IF wk[1] = "ws"
    THEN Lookup(limits, wk[2][2])
    ELSE Lookup(IF wk[1] \in DOMAIN windows THEN windows[wk[1]] ELSE <<>>, wk[2])

\* C14: an admit for one identity and class never changes the count or the
\* reset timestamp of the window of another identity or of another class, and
\* no admit is rejected while its own window is below its ceiling, however
\* exhausted the other windows are.
C14_WindowsIndependent ==
    /\ [][\A wk \in WindowKeys :
             wk # <<lastAdmit'.class, lastAdmit'.id>> =>
                 WindowIn(rateWindows', messageRateLimits', wk)
                     = WindowIn(rateWindows, messageRateLimits, wk)]_vars
    /\ [](Admitted =>
             (lastAdmit.post.count <= CeilingOf(lastAdmit.class) => lastAdmit.accepted))

\* address a1 has exhausted the AI class and its next read request is
\* accepted, with windows of the other address and of two sockets open
C14_Witness ==
    /\ WindowIn(rateWindows, messageRateLimits, <<"ai", <<"ip", "a1">>>>).count > 20
    /\ WindowIn(rateWindows, messageRateLimits, <<"ai", <<"ip", "a2">>>>).count = 1
    /\ lastAdmit.class = "api"
    /\ lastAdmit.id = <<"ip", "a1">>
    /\ lastAdmit.accepted
    /\ lastAdmit.post.count = 1
    /\ Lookup(messageRateLimits, "u1").count = 2
    /\ Lookup(messageRateLimits, "u2").count = 1

\* class a admits fewer requests per unit time than class b
AdmitsFewer(a, b) ==
    RateClasses[a].max * RateClasses[b].windowMs
        < RateClasses[b].max * RateClasses[a].windowMs

\* the ceilings' order apart from the place of the payment class
OrderApartFromPayment ==
    /\ DOMAIN rateWindows \subseteq DOMAIN RateClasses
    /\ \A c \in DOMAIN RateClasses \ {"auth"} : AdmitsFewer("auth", c)
    /\ AdmitsFewer("strictApi", "api")
    /\ \A c \in DOMAIN RateClasses \ {"auth", "ai", "stripe"} : ~AdmitsFewer(c, "ai")
    /\ ~AdmitsFewer("webhook", "api")

\* C15: among the limiters the process runs, the auth class admits the fewest
\* requests per unit time of all classes, the write class (strictApi) has a
\* lower ceiling than the read class (api), the AI class has the lowest
\* ceiling of all classes but auth, and the webhook ceiling is at least as
\* high as the read ceiling.
C15_CeilingOrdering ==
    /\ DOMAIN rateWindows \subseteq DOMAIN RateClasses
    /\ \A c \in DOMAIN RateClasses \ {"auth"} : AdmitsFewer("auth", c)
    /\ AdmitsFewer("strictApi", "api")
    /\ \A c \in DOMAIN RateClasses \ {"auth", "ai"} : ~AdmitsFewer(c, "ai")
    /\ ~AdmitsFewer("webhook", "api")

\* the call of getCachedLimits of request r, once it has been made
Resolution(r) == req[r].res

\* C16: a limit resolution made while the cache, populated at time t and not
\* cleared since, is younger than the TTL returns the cached set without a read
\* of the configuration store; one made at cache age >= TTL issues a read.
C16_CacheHit ==
    \A r \in Reqs :
        LET c == Resolution(r)
        IN (c.set /\ c.cache.set) =>
              /\ (c.calledAt - c.populatedAt < LIMITS_CACHE_TTL) =>
                     (~c.issued /\ c.got = c.cache)
              /\ (c.calledAt - c.populatedAt >= LIMITS_CACHE_TTL) => c.issued

\* The same measured from the timestamp the cache carries, which for the
\* defaults installed after a failed refresh is the start of that resolution.
CacheHitByTimestamp ==
    \A r \in Reqs :
        LET c == Resolution(r)
        IN (c.set /\ c.cache.set) =>
              /\ (c.calledAt - c.cache.lastFetched < LIMITS_CACHE_TTL) =>
                     (~c.issued /\ c.got = c.cache)
              /\ (c.calledAt - c.cache.lastFetched >= LIMITS_CACHE_TTL) => c.issued

\* the refresh of a resolution came back without limits
RefreshFailed(c) ==
    c.returned /\ c.issued /\ (c.outcome \in {"error", "throw"} \/ c.rows = {})

IsDefaults(set) == \A tier \in Tiers : set[tier] = DEFAULT_LIMITS[tier]

\* C17: when a refresh fails (store error, raised fault or empty result) the
\* provider returns without raising; it returns the previously cached limit
\* set, unchanged, if there is one, and otherwise returns the built-in defaults
\* and installs them in the cache.
C17_FallbackOnFailure ==
    \A r \in Reqs :
        LET c == Resolution(r)
        IN RefreshFailed(c) =>
              /\ req[r].pc \in {"read", "deny", "respond", "done"}
              /\ req[r].resp.status # 500
              /\ IF c.before.set
                 THEN c.got = c.before /\ c.after = c.before
                 ELSE IsDefaults(c.got) /\ c.after.set /\ c.after = c.got

\* a stale cache of configured limits is served after a failed refresh
C17_Witness ==
    \E r \in Reqs :
        LET c == Resolution(r)
        IN /\ RefreshFailed(c)
           /\ c.before.set
           /\ ~IsDefaults(c.before)
           /\ c.calledAt - c.before.lastFetched >= LIMITS_CACHE_TTL
           /\ c.got = c.before

\* every tier of the set comes from a row of the one table
WholeRead(set, table) ==
    \A tier \in Tiers : \E row \in table : row.tier = tier /\ set[tier] = RowLimits(row)

\* every tier of the set comes from its row of the one table, or is the
\* default of that tier when the table has no row for it
TierWiseRead(set, table) ==
    /\ table # {}
    /\ \A tier \in Tiers :
          IF \E row \in table : row.tier = tier
          THEN \E row \in table : row.tier = tier /\ set[tier] = RowLimits(row)
          ELSE set[tier] = DEFAULT_LIMITS[tier]

\* the limit sets in being: the cache and what the resolutions returned
LimitSets ==
    (IF limitsCache.set THEN {limitsCache} ELSE {})
        \cup {Resolution(r).got : r \in {q \in Reqs : Resolution(q).returned}}

\* C18 as claimed: every limit set the provider returns or caches is entirely
\* the result of one single successful read of the configuration source or
\* entirely the built-in defaults.
C18_WholeSnapshot ==
    \A set \in LimitSets :
        IsDefaults(set) \/ \E table \in cacheHist.reads : WholeRead(set, table)

\* C18 amended: every limit set the provider returns or caches is, tier by
\* tier, the result of one single successful read, the built-in defaults
\* standing in for a tier that read did not contain, or it is entirely the
\* built-in defaults; it never mixes two reads.
C18_TierWiseSnapshot ==
    \A set \in LimitSets :
        IsDefaults(set) \/ \E table \in cacheHist.reads : TierWiseRead(set, table)

\* a set read from a table without a premium row, after the cache had held
\* the limits of a full table
C18_Witness ==
    /\ Cardinality(cacheHist.reads) = 2
    /\ \E r \in Reqs :
          LET c == Resolution(r)
          IN /\ c.returned /\ c.issued
             /\ TierWiseRead(c.got, c.rows)
             /\ ~WholeRead(c.got, c.rows)
             /\ c.got.premium = DEFAULT_LIMITS.premium
             /\ c.got.free # DEFAULT_LIMITS.free

\* C19: the first limit resolution after clearLimitsCache has returned issues
\* a read of the configuration store, whatever the age of the cache before,
\* and on a successful read returns the limits stored at that moment.
C19_CacheInvalidation ==
    \A r \in Reqs :
        LET c == Resolution(r)
        IN (c.set /\ c.cleared) =>
              /\ c.issued
              /\ (c.returned /\ c.outcome = "ok" /\ c.rows # {}) =>
                     TierWiseRead(c.got, c.rows)

\* a resolution that finds the cache empty issues a read
EmptyCacheIsRead ==
    \A r \in Reqs :
        LET c == Resolution(r)
        IN (c.set /\ ~c.cache.set) => c.issued

\* C28: a refresh that read the configuration source before an administrative
\* change and comes back after clearLimitsCache was called for that change
\* does not install the limits it read in the cache, and no resolution returns
\* them after the invalidation.
C28_InvalidationNotUndone ==
    \A r \in Reqs :
        LET c == Resolution(r)
        IN (c.preChange /\ c.returned /\ c.rows # {}) =>
              /\ ~TierWiseRead(c.got, c.rows)
              /\ ~(limitsCache.set /\ TierWiseRead(limitsCache, c.rows))

\* the limit of feature e in force for user u
LimitInForce(u, e) ==
    TierLimitsOf(fetchLimitsFromDatabase("ok", tier_limits, now),
                 isPremiumUser("ok", user_profiles[u]))[e]

\* the largest cost one operation of feature e records
OperationCost(e) ==
    LET costs == UNION {RouteCosts(route) : route \in {x \in Routes : RouteEndpoint(x) = e}}
    IN CHOOSE c \in costs : \A d \in costs : d <= c

\* C29: for every user and feature, the recorded usage of the current month
\* never exceeds the limit by more than the cost of one single operation,
\* under any interleaving of the user's concurrent requests.
C29_BoundedOvershoot ==
    \A u \in Users, e \in Endpoints :
        LedgerUsage(user_token_limits[u], getMonthStart(month), e)
            <= LimitInForce(u, e) + OperationCost(e)

\* recordTokenUsage of request r has returned
Recorded(r) == req[r].pc = "done" /\ req[r].insert # "none"

\* C20: in recordTokenUsage, whatever the outcome of the event append (success,
\* returned error or raised fault) the increment of the monthly aggregate is
\* still attempted, and a failed increment neither prevents nor undoes the
\* event append.
C20_IndependentDualWrite ==
    \A r \in Reqs :
        Recorded(r) =>
            /\ req[r].rpc # "none"
            /\ (req[r].insert = "ok" /\ req[r].rpc # "ok") =>
                   BagIn(UsageEvent(r), token_usage)

\* The same for an event append that returns: the increment is attempted
\* after a returned error, and the event outlives a failed increment.
DualWriteUnlessRaised ==
    \A r \in Reqs :
        (Recorded(r) /\ req[r].insert # "throw") =>
            /\ req[r].rpc # "none"
            /\ (req[r].insert = "ok" /\ req[r].rpc # "ok") =>
                   BagIn(UsageEvent(r), token_usage)

\* C21: recordTokenUsage returns normally for every combination of success
\* and failure of its two store writes, and the handler then delivers the
\* metered result it has produced.
C21_AccountingNeverFailsHandler ==
    \A r \in Reqs :
        (req[r].insert # "none") =>
            /\ req[r].pc \in {"rec_rpc", "done"}
            /\ (req[r].pc = "done" => req[r].resp.status = 200)

\* both writes failed, the second by raising, and the result went out
C21_Witness ==
    \E r \in Reqs :
        /\ req[r].pc = "done"
        /\ req[r].route = "tts"
        /\ req[r].insert = "error"
        /\ req[r].rpc = "throw"
        /\ req[r].resp.status = 200

\* the decision of the gate for request r had the tier lookup, the limit
\* source and the ledger all answered: the user's tier as user_profiles holds
\* it, the limit the tier_limits table holds for that tier (the default where
\* the table has no row), the usage of the ledger row
WouldBeAdmitted(r) ==
    LET q == req[r].tokenQuota
        tier == IF user_profiles[req[r].user] \in PremiumStatuses THEN "premium" ELSE "free"
        limit == IF \E row \in tier_limits : row.tier = tier
                 THEN (CHOOSE row \in tier_limits : row.tier = tier)[
                          CASE Endpoint(r) = "chat" -> "chat_limit"
                            [] Endpoint(r) = "tts" -> "tts_limit"
                            [] Endpoint(r) = "realtime" -> "realtime_limit"]
                 ELSE DEFAULT_LIMITS[tier][Endpoint(r)]
    IN LedgerUsage(q.row, q.monthStart, Endpoint(r)) < limit

\* C22: a request that would be admitted when the limit source, the ledger
\* and the tier lookup all respond is also admitted when one of those reads
\* fails; a premium user is not denied because the tier lookup failed.
C22_AvailabilityOverAccuracy ==
    \A r \in Reqs :
        (req[r].tokenQuota.set /\ WouldBeAdmitted(r)) => req[r].tokenQuota.allowed

\* The same for the requests whose tier was resolved as user_profiles holds
\* it: a failed limit or ledger read does not deny them.
AvailabilityWithTierKnown ==
    \A r \in Reqs :
        (/\ req[r].tokenQuota.set
         /\ WouldBeAdmitted(r)
         /\ req[r].isPremium = (user_profiles[req[r].user] \in PremiumStatuses))
            => req[r].tokenQuota.allowed

\* p is 100 * used / limit rounded to the nearest integer, halves upward
IsRoundedPercent(p, used, limit) ==
    /\ p \in Nat
    /\ 2 * limit * p <= 200 * used + limit
    /\ 200 * used + limit < 2 * limit * (p + 1)

\* the figures calculateFeatureUsage computed for request r
Telemetry(r) == req[r].tokenQuota.set /\ req[r].tokenQuota.outcome # "throw"

\* C23: for every used >= 0 and every limit the provider can return,
\* percentUsed is round(100 * used / limit), a well-defined integer, and
\* isWarning is true exactly when percentUsed >= 80.
C23_UsageTelemetry ==
    \A r \in Reqs :
        LET q == req[r].tokenQuota
        IN Telemetry(r) =>
              /\ IsRoundedPercent(q.percentUsed, q.used, q.limit)
              /\ q.isWarning <=> (q.percentUsed >= 80)

\* The same for the positive limits
TelemetryForPositiveLimit ==
    \A r \in Reqs :
        LET q == req[r].tokenQuota
        IN (Telemetry(r) /\ q.limit > 0) =>
              /\ IsRoundedPercent(q.percentUsed, q.used, q.limit)
              /\ q.isWarning <=> (q.percentUsed >= 80)

\* the scenario of the free tier's default chat limit: 49,000 of 50,000
TelemetryScenario ==
    \E r \in Reqs :
        LET q == req[r].tokenQuota
        IN /\ Telemetry(r) /\ q.used = 49000 /\ q.limit = 50000
           /\ q.percentUsed = 98 /\ q.isWarning /\ q.allowed /\ q.remaining = 1000

\* one step of request r of a metered route, as far as recording goes
RecordingStep(r) ==
    LET a == req[r]
        b == req'[r]
        e == RouteEndpoint(a.route)
    IN \* recording starts only when the upstream operation has completed,
       \* with the amount it measured
       /\ (a.route \in {"chat", "tts"} /\ a.pc # "rec_insert" /\ b.pc = "rec_insert") =>
              /\ a.pc = "upstream" /\ a.upstream
              /\ b.cost \in RouteCosts(a.route) /\ b.cost > 0
       \* the amount does not change once measured
       /\ (a.pc \in {"rec_insert", "rec_rpc"}) => b.cost = a.cost
       \* a request records at most once
       /\ (a.pc \in {"rec_rpc", "done"}) => b.pc \notin {"upstream", "rec_insert"}
       /\ (a.pc = "done") => b.pc \in {"done", "idle"}
       \* an operation that did not complete, or measured nothing, records nothing
       /\ (a.pc = "upstream" /\ b.pc = "done") =>
              /\ token_usage' = token_usage
              /\ user_token_limits' = user_token_limits
              /\ b.events = 0 /\ b.increments = 0

\* C24: for each admitted chat or tts operation usage is recorded only after
\* the upstream operation has completed, with the measured amount, and never
\* more than once per request; an operation that fails before completion
\* records nothing.
C24_RecordAfterCompletionOnce ==
    [][ /\ \A r \in Reqs : RecordingStep(r)
        /\ (token_usage' # token_usage) =>
               \E r \in Reqs :
                   /\ req[r].pc = "rec_insert" /\ req'[r].pc = "rec_rpc"
                   /\ token_usage' = token_usage (+) SetToBag({
                          [user_id |-> req[r].user, tokens_used |-> req[r].cost,
                           model |-> RouteModel(req[r].route),
                           endpoint |-> RouteEndpoint(req[r].route)]})
        /\ (user_token_limits' # user_token_limits) =>
               \E r \in Reqs :
                   /\ req[r].pc = "rec_rpc" /\ req'[r].pc = "done"
                   /\ LedgerUsage(user_token_limits'[req[r].user], getMonthStart(month),
                                  RouteEndpoint(req[r].route))
                        = LedgerUsage(user_token_limits[req[r].user], getMonthStart(month),
                                      RouteEndpoint(req[r].route)) + req[r].cost
      ]_vars

\* the second request of a run, a chat, recorded the tokens its stream
\* reported, once: the log holds that one event and the ledger that amount
C24_Witness ==
    \E r \in Reqs :
        /\ started = 2
        /\ req[r].pc = "done" /\ req[r].route = "chat" /\ req[r].cost = 2000
        /\ req[r].events = 1 /\ req[r].increments = 1
        /\ token_usage = SetToBag({UsageEvent(r)})
        /\ \A u \in Users :
               user_token_limits[u] # NoRow =>
                   /\ u = req[r].user
                   /\ user_token_limits[u].chat = 2000
                   /\ user_token_limits[u].tts = 0
                   /\ user_token_limits[u].realtime = 0

\* C25: every recordTokenUsage call appends at most one UsageEvent, carrying
\* the user, feature, amount and model of the call, and no operation modifies
\* or deletes an existing event: the log only grows.
C25_AppendOnlyLog ==
    /\ [][ /\ \A ev \in BagToSet(token_usage) :
                  CopiesIn(ev, token_usage') >= CopiesIn(ev, token_usage)
           /\ BagCardinality(token_usage') <= BagCardinality(token_usage) + 1
           /\ (token_usage' # token_usage) =>
                  \E r \in Reqs, ev \in BagToSet(token_usage') :
                      /\ req[r].pc = "rec_insert"
                      /\ CopiesIn(ev, token_usage') = CopiesIn(ev, token_usage) + 1
                      /\ ev.user_id = req[r].user
                      /\ ev.endpoint = RouteEndpoint(req[r].route)
                      /\ ev.tokens_used = req[r].cost
                      /\ ev.model = RouteModel(req[r].route)
         ]_vars
    /\ [](BagCardinality(token_usage) <= started)

\* two calls for one user and feature left two events
C25_Witness ==
    /\ BagCardinality(token_usage) = 2
    /\ \E u \in Users, e \in Endpoints :
           \A ev \in BagToSet(token_usage) : ev.user_id = u /\ ev.endpoint = e
    /\ \E r \in Reqs : req[r].pc = "done" /\ req[r].events = 1

\* the window an identity's admits are counted in, and the admits observed
WindowCounts(window, o, W, counted) ==
    /\ window.set
    /\ window.resetTime = o.start + W
    /\ window.count = counted

\* C26: under any interleaving of the admits of one (identity, class) every
\* admit is counted exactly once (no lost update of the counter, no second
\* window created within a window), so no more than the class's max requests
\* are accepted within one window.
C26_ConcurrentAdmitsCounted ==
    /\ \A class \in DOMAIN rateWindows : \A key \in DOMAIN rateWindows[class] :
           LET o == ObsOf(<<class, key>>)
           IN WindowCounts(rateWindows[class][key], o, RateClasses[class].windowMs, o.n)
    /\ \A u \in DOMAIN messageRateLimits :
           LET o == ObsOf(<<"ws", u>>)
           IN WindowCounts(messageRateLimits[u], o, WsWindowMs,
                           IF o.n <= WS_MAX_MESSAGES_PER_MINUTE
                           THEN o.n ELSE WS_MAX_MESSAGES_PER_MINUTE)
    /\ (Admitted /\ lastAdmit.accepted) => lastAdmit.ordinal <= CeilingOf(lastAdmit.class)

\* a socket user's 62nd message within a minute: the window still counts the
\* 60 accepted ones, while the auth window has counted all its 7 admits
C26_Witness ==
    /\ lastAdmit.class = "ws"
    /\ lastAdmit.ordinal = WS_MAX_MESSAGES_PER_MINUTE + 2
    /\ ~lastAdmit.accepted
    /\ lastAdmit.post.count = WS_MAX_MESSAGES_PER_MINUTE
    /\ "auth" \in DOMAIN rateWindows
    /\ \E key \in DOMAIN rateWindows["auth"] :
           /\ rateWindows["auth"][key].count = RateClasses["auth"].max + 2
           /\ rateWindows["auth"][key].count = ObsOf(<<"auth", key>>).n

\* C27: after a user cancels through /stripe/cancel-subscription (status
\* 'canceling'), isPremiumUser stays true for that user until the
\* subscription is actually deleted, whatever customer.subscription.created
\* and customer.subscription.updated events arrive in between.
C27_CancellationKeepsPremium ==
    \A u \in Users :
        (cancelled[u] /\ HasSubscription(u)) => isPremiumUser("ok", user_profiles[u])

\* the counter of user u for feature e in the month m
Counter(aggregate, u, e, m) == LedgerUsage(aggregate[u], getMonthStart(m), e)

\* the steps of a quota check: tier lookup, limit resolution, ledger read
CheckSteps == {"tier", "limits", "fetch", "fetched", "read"}

\* C30: a recordTokenUsage call for user u and feature f changes only u's
\* counter for f in the current month: the counters of u's other two features
\* and every counter of every other user are unchanged; a quota check never
\* changes any counter.
C30_IncrementFrame ==
    [][ \A r \in Reqs :
          /\ (req[r].pc \in {"rec_insert", "rec_rpc"} /\ req'[r].pc # req[r].pc) =>
                 /\ month' = month
                 /\ \A u \in Users, e \in Endpoints :
                        (u # req[r].user \/ e # RouteEndpoint(req[r].route)) =>
                            Counter(user_token_limits', u, e, month)
                                = Counter(user_token_limits, u, e, month)
          /\ (req[r].pc \in CheckSteps /\ req'[r].pc # req[r].pc) =>
                 user_token_limits' = user_token_limits
      ]_vars

\* a chat recorded for a user whose realtime counter stands at 1000 this
\* month: the chat counter took the amount, the realtime counter kept its 1000
C30_Witness ==
    \E r \in Reqs :
        LET row == user_token_limits[req[r].user]
        IN /\ req[r].pc = "done" /\ req[r].route = "chat" /\ req[r].rpc = "ok"
           /\ row.exists /\ row.month_start = getMonthStart(month)
           /\ row.chat = req[r].cost /\ req[r].cost > 0
           /\ row.realtime = 1000 /\ row.tts = 0

\* C31: the tracked connection count of each user is at most 3 at every
\* moment; a connection attempt of a user who already has 3 tracked
\* connections is closed with code 4003 and is not tracked, under any
\* interleaving of connection attempts and token verifications.
C31_ConnectionLimit ==
    /\ [][ \A s \in Sockets :
              (/\ sockets[s].pc = "verify" /\ sockets'[s].pc # "verify"
               /\ sockets[s].token \in Users
               /\ sockets'[s].closeCode # 4002
               /\ userConnectionCounts[sockets[s].token] >= WS_CONNECTION_LIMIT_PER_USER) =>
                  /\ sockets'[s].pc = "rejected"
                  /\ ~sockets'[s].tracked
                  /\ sockets[s].readyState = "OPEN" =>
                         (sockets'[s].closeCode = 4003 /\ sockets'[s].readyState = "CLOSING")
                  /\ userConnectionCounts' = userConnectionCounts
                  /\ connections' = connections
       ]_vars
    /\ [](\A u \in Users : userConnectionCounts[u] <= WS_CONNECTION_LIMIT_PER_USER)
    /\ [](\A s \in Sockets : sockets[s].closeCode = 4003 => ~sockets[s].tracked)

\* a fourth client of a user with three tracked connections was turned away
C31_Witness ==
    \E s \in Sockets :
        /\ sockets[s].closeCode = 4003
        /\ ~sockets[s].tracked
        /\ userConnectionCounts[sockets[s].token] = WS_CONNECTION_LIMIT_PER_USER
        /\ Cardinality({o \in Sockets : sockets[o].tracked}) = WS_CONNECTION_LIMIT_PER_USER

\* the accepted connections of user u that are not closed
OpenConnections(u) ==
    {s \in Sockets : /\ sockets[s].tracked /\ sockets[s].user = u
                     /\ sockets[s].readyState \in {"OPEN", "CLOSING"}}

\* C32: after any sequence of connects and closes, including a socket that
\* closes while its token is still being verified, userConnectionCounts of a
\* user equals the number of the user's open accepted connections, so a user
\* with no open connection is always able to open a new one.
C32_ConnectionCountAccuracy ==
    \A u \in Users :
        /\ userConnectionCounts[u] = Cardinality(OpenConnections(u))
        /\ OpenConnections(u) = {} => canConnect(userConnectionCounts, u)

\* C33: whenever a user has at least one open accepted connection, the
\* connections map holds an open socket of that user and sendToUser delivers
\* to it, also after another connection of the same user has closed.
C33_ConnectedUserReachable ==
    \A u \in Users :
        (\E s \in Sockets : /\ sockets[s].tracked /\ sockets[s].user = u
                            /\ sockets[s].readyState = "OPEN") =>
            /\ connections[u] \in Sockets
            /\ sockets[connections[u]].user = u
            /\ sendToUser(u)

\* C34: a socket message rejected by the per-user message limit is answered
\* with a RATE_LIMITED error, is never parsed or passed to handleMessage, and
\* changes neither the window count nor its reset time; the window is shared
\* by all connections of the user, so at most 60 messages per user are
\* handled within one window.
C34_MessageThrottling ==
    /\ lastMessage.limited =>
           /\ lastMessage.reply = "RATE_LIMITED"
           /\ ~lastMessage.parsed
           /\ ~lastMessage.handled
           /\ lastMessage.post = lastMessage.pre
           /\ lastMessage.pre.count = WS_MAX_MESSAGES_PER_MINUTE
    /\ lastMessage.handled => ~lastMessage.limited
    /\ \A u \in Users : lastMessage.count[u] <= WS_MAX_MESSAGES_PER_MINUTE

\* a message of the user's second connection is rejected in a window in
\* which both connections had messages handled, 60 in all
C34_Witness ==
    /\ lastMessage.limited
    /\ lastMessage.socket = 2
    /\ lastMessage.count[lastMessage.user] = WS_MAX_MESSAGES_PER_MINUTE
    /\ lastMessage.seen[lastMessage.user] > WS_MAX_MESSAGES_PER_MINUTE
    /\ now > 0
    /\ \A s \in ThrottleSockets : sockets[s].handled /\ sockets[s].user = lastMessage.user

\* socket s is in no entry of the connections map
NotStored(s) == \A u \in Users : connections[u] # s

\* the callback of socket s returned without accepting it
TurnedAway(s, code) ==
    /\ sockets[s].pc = "rejected"
    /\ sockets[s].closeCode = code
          \/ (sockets[s].closeCode = 0 /\ sockets[s].readyState = "CLOSED")
    /\ sockets[s].readyState # "OPEN"
    /\ sockets[s].user = "none"
    /\ ~sockets[s].tracked /\ ~sockets[s].welcomed /\ ~sockets[s].handled
    /\ NotStored(s)

\* C35: handleMessage runs only for a socket whose token was verified and
\* that passed the connection limit; a connection without a token is closed
\* with code 4001 and one with an invalid token with code 4002, and neither is
\* tracked, stored in connections, or sent a welcome message.
C35_NoHandlingBeforeAuth ==
    \A s \in Sockets :
        /\ sockets[s].handled =>
               /\ sockets[s].token \in Users
               /\ sockets[s].user = sockets[s].token
               /\ sockets[s].pc = "live" /\ sockets[s].tracked
        /\ (sockets[s].pc # "new" /\ sockets[s].token = "none") =>
               (TurnedAway(s, 4001) /\ sockets[s].closeCode = 4001)
        /\ (sockets[s].pc \notin {"new", "verify"} /\ sockets[s].token = "invalid") =>
               TurnedAway(s, 4002)
        /\ (sockets[s].pc = "verify") =>
               (~sockets[s].tracked /\ ~sockets[s].welcomed /\ ~sockets[s].handled
                  /\ NotStored(s))

\* one client came without a token, one with an invalid token, and a third,
\* verified, had a message handled
C35_Witness ==
    \E a, b, c \in Sockets :
        /\ sockets[a].token = "none" /\ sockets[a].closeCode = 4001
        /\ sockets[b].token = "invalid" /\ sockets[b].closeCode = 4002
        /\ sockets[c].handled /\ sockets[c].welcomed
        /\ lastMessage.socket = c /\ lastMessage.reply = "handleMessage"

\* C36: a connection that does not answer a heartbeat ping with a pong
\* before the next tick is terminated at that tick, and a connection that
\* answers every ping before the next tick is never terminated by the
\* heartbeat.
C36_HeartbeatLiveness ==
    [][ beats' = beats + 1 =>
          \A s \in Sockets :
              sockets[s].readyState = "OPEN" =>
                  /\ (sockets[s].pinged /\ ~sockets[s].answered) => sockets'[s].terminated
                  /\ ~sockets'[s].missed => ~sockets'[s].terminated
      ]_vars

\* C37: a non-premium user never holds more than FREE_SITE_LIMIT saved sites
\* after any sequence of /sites/save and delete requests, including several
\* /sites/save requests for distinct new pages running concurrently; saving an
\* already existing site is always allowed and does not change the count.
C37_SiteLimit ==
    /\ \A u \in Users :
           ~isPremiumUser("ok", user_profiles[u]) =>
               Cardinality(SitesOf(user_sites, u)) <= FREE_SITE_LIMIT
    /\ \A q \in SiteReqs :
           (siteReq[q].pc = "check"
              /\ <<siteReq[q].user, siteReq[q].digest>> \in user_sites) =>
               can_add_site(user_sites, user_profiles[siteReq[q].user],
                            siteReq[q].user, siteReq[q].digest).can_add
====
